---- MODULE Spec2Model ----
(***************************************************************************)
(* Model of the youtube-lens content script (content.tsx, latest variant): *)
(* the Filter State Store, the Injection Engine, the Card Classifier, the  *)
(* Channel Link Resolver, the Filter Engine and the Page Observer.         *)
(***************************************************************************)
EXTENDS Integers, Sequences, FiniteSets, TLC

VARIABLES
    path,               \* location.pathname (with location.origin)
    lastPath,           \* init(): let lastPath
    dom,                \* the document: cards, header, injected elements
    activeFilterTags,   \* let activeFilterTags
    channelTagMap,      \* let channelTagMap
    contentTypeFilters, \* let contentTypeFilters
    detail,             \* the filter-change event, if the last step handled one
    assign,             \* the ytx-open-assign events the last step dispatched
    ctree,              \* classifier input: a card subtree
    ctype,              \* classifier output
    nurl,               \* normalizer input: a channel URL string
    nkey,               \* normalizer output (<<>> before the call)
    nlook,              \* result of the tag lookups on nurl (<<>> before the calls)
    panel,              \* the panel component (App): its React state
    storage,            \* chrome.storage: <<>> when the page has no backend
    rlinks,             \* resolver input: the anchors of a card, in document order
    rout,               \* resolver output (<<>> before the call)
    records,            \* child-list mutation records are queued for the observers
    lastMenuCard,       \* let lastMenuCard (<<>> is null)
    requests            \* chrome.storage calls issued and not yet served

vars == <<path, lastPath, dom, activeFilterTags, channelTagMap,
          contentTypeFilters, detail, assign, ctree, ctype, nurl, nkey, nlook,
          panel, storage, rlinks, rout, records, lastMenuCard, requests>>

\* ------------------------------------------------------------------------
\* Bounds
\* ------------------------------------------------------------------------
NumCards == 1
NumNodes == 3
MaxMentioned == 2
MaxTags == 3
MaxLinks == 3
MaxPopups == 2
MaxShelves == 2

\* ------------------------------------------------------------------------
\* Generic helpers
\* ------------------------------------------------------------------------
Min(S) == CHOOSE x \in S : \A y \in S : x <= y

Range(s) == {s[i] : i \in DOMAIN s}

\* ------------------------------------------------------------------------
\* URLs.  A URL string is modelled by its parts: the origin ("" for a string
\* that carries none, which `new URL(s)` rejects), the path segments and the
\* trailing slash: the path is "/" \o seg for every segment, then "/" when
\* slash holds.  A segment may be empty ("/@a//" is <<"@a", "">> with slash);
\* a path without trailing slash does not end in an empty segment.
\* ------------------------------------------------------------------------
YT_ORIGIN == "https://www.youtube.com"

Url(origin, segs, slash) == [origin |-> origin, segs |-> segs, slash |-> slash]

\* String.prototype.toLowerCase on one path segment or one word
ToLowerCase(s) ==
    CASE s = "@A" -> "@a"
      [] s = "@B" -> "@b"
      [] s = "UCx" -> "ucx"
      [] s = "Racing" -> "racing"
      [] s = "Games" -> "games"
      [] OTHER -> s

\* the empty string
NoUrl == Url("", <<>>, FALSE)

\* new URL(url).pathname: a URL without a path has the path "/"
Pathname(url) ==
    IF url.segs = <<>> /\ ~url.slash THEN [segs |-> <<>>, slash |-> TRUE]
    ELSE [segs |-> url.segs, slash |-> url.slash]

\* path.replace(/\/$/, "") || "/": one trailing slash is dropped; a path that
\* ended in "//" still ends in "/", and the root path stays "/"
StripSlash(pn) ==
    IF ~pn.slash THEN pn
    ELSE IF pn.segs = <<>> THEN pn
    ELSE IF pn.segs[Len(pn.segs)] = ""
    THEN [segs |-> SubSeq(pn.segs, 1, Len(pn.segs) - 1), slash |-> TRUE]
    ELSE [segs |-> pn.segs, slash |-> FALSE]

\* normalizeChannelUrl with the catch block handing on the exception
normalizeChannelUrl_Throws(url) ==
    IF url.origin = "" THEN Url("TypeError: Invalid URL", <<>>, FALSE)
    ELSE LET pn == StripSlash(Pathname(url))
         IN  Url(YT_ORIGIN, [i \in DOMAIN pn.segs |-> ToLowerCase(pn.segs[i])], pn.slash)

\* normalizeChannelUrl (lib/utils)
normalizeChannelUrl(url) ==
    IF url.origin = "" THEN url   \* new URL(url) throws: catch { return url }
    ELSE LET pn == StripSlash(Pathname(url))
         IN  Url(YT_ORIGIN, [i \in DOMAIN pn.segs |-> ToLowerCase(pn.segs[i])], pn.slash)

\* link.href: the href attribute resolved against the document's origin
Href(attr) == IF attr.origin = "" THEN Url(YT_ORIGIN, attr.segs, attr.slash) ELSE attr

\* s.startsWith("@")
IsHandleSeg(s) == s \in {"@a", "@A", "@b", "@B"}

\* the path string contains "/channel/"
PathIncludesChannel(u) ==
    \E i \in DOMAIN u.segs : u.segs[i] = "channel" /\ (i < Len(u.segs) \/ u.slash)

\* the path string starts with "/c/"
PathStartsWithC(u) ==
    Len(u.segs) >= 1 /\ u.segs[1] = "c" /\ (Len(u.segs) > 1 \/ u.slash)

\* the path string starts with "/@"
PathStartsWithAt(u) == Len(u.segs) >= 1 /\ IsHandleSeg(u.segs[1])

\* the string contains "/@"
IncludesAt(u) == \E i \in DOMAIN u.segs : IsHandleSeg(u.segs[i])

\* the string contains "/c/"
IncludesC(u) ==
    \E i \in DOMAIN u.segs : u.segs[i] = "c" /\ (i < Len(u.segs) \/ u.slash)

isChannelUrl(href) ==
    PathIncludesChannel(href) \/ PathStartsWithAt(href) \/ PathStartsWithC(href)

\* ------------------------------------------------------------------------
\* Card Classifier.  A card subtree is a sequence of element records; node 0
\* is the card itself.  t[n].parent is the parent element, t[n].sh says that
\* n lives in the parent's shadow root, t[n].mark is the marker selector the
\* element matches ("none" for no marker).
\* ------------------------------------------------------------------------
Markers == {"shortsLink", "shortsOverlay", "liveOverlay", "liveBadge", "upcomingOverlay"}

NullEl == 0

\* the children of a root: <<r, FALSE>> is element r, <<r, TRUE>> its shadow root
Kids(t, root) == {n \in DOMAIN t : t[n].parent = root[1] /\ t[n].sh = root[2]}

RECURSIVE IsUnder(_, _, _)
IsUnder(t, n, root) ==
    \/ n \in Kids(t, root)
    \/ /\ ~t[n].sh
       /\ t[n].parent # 0
       /\ IsUnder(t, t[n].parent, root)

\* root.querySelectorAll("*")
QueryAll(t, root) == {n \in DOMAIN t : IsUnder(t, n, root)}

\* root.querySelector(selector)
QuerySelector(t, root, sel) ==
    LET hits == {n \in QueryAll(t, root) : t[n].mark = sel}
    IN  IF hits = {} THEN NullEl ELSE Min(hits)

\* child.shadowRoot is non-null
HasShadowRoot(t, n) == \E m \in DOMAIN t : t[m].parent = n /\ t[m].sh

\* walk that looks into the shadow roots of the first level only
walk_OneLevel(t, root, sel) ==
    LET hosts == {c \in QueryAll(t, root) : HasShadowRoot(t, c)}
        hits == {c \in hosts : QuerySelector(t, <<c, TRUE>>, sel) # NullEl}
    IN  IF hits = {} THEN NullEl ELSE QuerySelector(t, <<Min(hits), TRUE>>, sel)

RECURSIVE walk(_, _, _)
walk(t, root, sel) ==
    LET hosts == {c \in QueryAll(t, root) : HasShadowRoot(t, c)}
        hit(c) == \/ QuerySelector(t, <<c, TRUE>>, sel) # NullEl
                  \/ walk(t, <<c, TRUE>>, sel) # NullEl
        hits == {c \in hosts : hit(c)}
    IN  IF hits = {} THEN NullEl
        ELSE LET c == Min(hits)
                 found == QuerySelector(t, <<c, TRUE>>, sel)
             IN  IF found # NullEl THEN found ELSE walk(t, <<c, TRUE>>, sel)

queryInCard(t, sel) ==
    LET el == QuerySelector(t, <<0, FALSE>>, sel)
    IN  IF el # NullEl THEN el ELSE walk(t, <<0, FALSE>>, sel)

\* getContentType that tests the live markers before the shorts markers
getContentType_LiveFirst(t) ==
    IF queryInCard(t, "liveOverlay") # NullEl \/ queryInCard(t, "liveBadge") # NullEl
    THEN "live"
    ELSE IF queryInCard(t, "shortsLink") # NullEl \/ queryInCard(t, "shortsOverlay") # NullEl
    THEN "shorts"
    ELSE IF queryInCard(t, "upcomingOverlay") # NullEl
    THEN "upcoming"
    ELSE "video"

getContentType(t) ==
    IF queryInCard(t, "shortsLink") # NullEl \/ queryInCard(t, "shortsOverlay") # NullEl
    THEN "shorts"
    ELSE IF queryInCard(t, "liveOverlay") # NullEl \/ queryInCard(t, "liveBadge") # NullEl
    THEN "live"
    ELSE IF queryInCard(t, "upcomingOverlay") # NullEl
    THEN "upcoming"
    ELSE "video"

El(parent, sh, mark) == [parent |-> parent, sh |-> sh, mark |-> mark]

RECURSIVE TreesOf(_)
\* every card subtree of k elements: an element's parent precedes it
TreesOf(k) ==
    IF k = 0 THEN {<<>>}
    ELSE {Append(t, El(p, sh, m)) :
            t \in TreesOf(k - 1), p \in 0..(k - 1), sh \in BOOLEAN,
            m \in Markers \cup {"none"}}

Trees == TreesOf(NumNodes)


\* ------------------------------------------------------------------------
\* Channel Link Resolver.  A card's anchors are a sequence in document order;
\* attr is the href attribute, text the trimmed textContent, avatar says the
\* element is a#avatar-link, ctx is the set of containers the anchor lies in,
\* inMenu says it has a ytd-menu-renderer ancestor.
\* ------------------------------------------------------------------------
Link(attr, text, avatar, ctx, inMenu) ==
    [attr |-> attr, text |-> text, avatar |-> avatar, ctx |-> ctx, inMenu |-> inMenu]

CHANNEL_LINK_SELECTORS ==
    << [ctx |-> "ytd-channel-name", c |-> TRUE],
       [ctx |-> "ytd-video-meta-block", c |-> TRUE],
       [ctx |-> "ytd-video-owner-renderer", c |-> FALSE],
       [ctx |-> "#byline-container", c |-> FALSE],
       [ctx |-> "#metadata-line", c |-> FALSE],
       [ctx |-> "#text-container", c |-> FALSE],
       [ctx |-> "yt-formatted-string#text", c |-> FALSE],
       [ctx |-> "#channel-info", c |-> FALSE] >>

\* a[href*='/channel/'], a[href*='/@'] (and a[href*='/c/'] where the selector has it)
MatchesSelector(l, sel) ==
    /\ sel.ctx \in l.ctx
    /\ \/ PathIncludesChannel(l.attr)
       \/ IncludesAt(l.attr)
       \/ (sel.c /\ IncludesC(l.attr))

RECURSIVE SelectorLinks(_, _)
\* the links the selector loop sets into foundLinks, in the order it sets them
SelectorLinks(links, i) ==
    IF i > Len(CHANNEL_LINK_SELECTORS) THEN <<>>
    ELSE SelectSeq(links, LAMBDA l :
                /\ MatchesSelector(l, CHANNEL_LINK_SELECTORS[i])
                /\ isChannelUrl(Href(l.attr))
                /\ ~l.inMenu)
         \o SelectorLinks(links, i + 1)

\* Array.from(map.values()) of a Map filled by set(href, link) in this order:
\* one value per key, at the position of the key's first set, the value of its last
RECURSIVE MapValues(_, _)
MapValues(sets, seen) ==
    IF sets = <<>> THEN <<>>
    ELSE LET k == Href(Head(sets).attr)
             same == SelectSeq(sets, LAMBDA l : Href(l.attr) = k)
         IN  IF k \in seen THEN MapValues(Tail(sets), seen)
             ELSE <<same[Len(same)]>> \o MapValues(Tail(sets), seen \cup {k})

findAllChannelLinks(links) ==
    LET avatars == SelectSeq(links, LAMBDA l : l.avatar)
        first == IF avatars # <<>> /\ isChannelUrl(Href(avatars[1].attr))
                 THEN <<avatars[1]>> ELSE <<>>
        found == first \o SelectorLinks(links, 1)
        fallback == SelectSeq(links, LAMBDA l : ~l.inMenu /\ isChannelUrl(Href(l.attr)))
    IN  IF found # <<>> THEN MapValues(found, {}) ELSE MapValues(fallback, {})

\* the link found, as a sequence of length 0 (null) or 1
findChannelLink(links) ==
    LET all == findAllChannelLinks(links)
    IN  IF Len(all) > 0 THEN <<all[1]>> ELSE <<>>

\* ------------------------------------------------------------------------
\* Filter State Store.  S = [tags, map, types] is the triple activeFilterTags,
\* channelTagMap, contentTypeFilters the reading code sees.  channelTagMap is
\* the sequence of its entries [key, tags] in Object.entries order.
\* ------------------------------------------------------------------------
TypeKeys == {"shorts", "videos", "live", "upcoming"}

DEFAULT_CONTENT_TYPES == [k \in TypeKeys |-> TRUE]

Store(tags, map, types) == [tags |-> tags, map |-> map, types |-> types]

MapHas(m, k) == \E i \in DOMAIN m : m[i].key = k

MapGet(m, k) == m[CHOOSE i \in DOMAIN m : m[i].key = k].tags

getTagCountForChannel(S, channelUrl) ==
    LET normalized == normalizeChannelUrl(channelUrl)
        hits == {i \in DOMAIN S.map : normalizeChannelUrl(S.map[i].key) = normalized}
        tags == IF MapHas(S.map, normalized) THEN MapGet(S.map, normalized)
                ELSE IF MapHas(S.map, channelUrl) THEN MapGet(S.map, channelUrl)
                ELSE IF hits # {} THEN S.map[Min(hits)].tags
                ELSE <<>>
    IN  Len(tags)

getTagButtonLabel(S, channelUrl) ==
    LET count == getTagCountForChannel(S, channelUrl)
    IN  IF count > 0 THEN ToString(count) \o " Tag" ELSE "Tag"

\* matchesTagFilter with every() in place of some()
matchesTagFilter_Every(S, channelUrl) ==
    IF S.tags = {} THEN TRUE
    ELSE IF channelUrl = <<>> THEN FALSE
    ELSE LET url == channelUrl[1]
             normalized == normalizeChannelUrl(url)
             hits == {i \in DOMAIN S.map : normalizeChannelUrl(S.map[i].key) = normalized}
             assigned == IF MapHas(S.map, normalized) THEN MapGet(S.map, normalized)
                         ELSE IF MapHas(S.map, url) THEN MapGet(S.map, url)
                         ELSE IF hits # {} THEN S.map[Min(hits)].tags
                         ELSE <<>>
         IN  \A i \in DOMAIN assigned : assigned[i] \in S.tags

\* channelUrl is the attribute value as a sequence: <<>> is null
matchesTagFilter_ExactKey(S, channelUrl) ==
    IF S.tags = {} THEN TRUE
    ELSE IF channelUrl = <<>> THEN FALSE
    ELSE LET url == channelUrl[1]
             assigned == IF MapHas(S.map, url) THEN MapGet(S.map, url) ELSE <<>>
         IN  \E i \in DOMAIN assigned : assigned[i] \in S.tags

matchesTagFilter(S, channelUrl) ==
    IF S.tags = {} THEN TRUE
    ELSE IF channelUrl = <<>> THEN FALSE
    ELSE LET url == channelUrl[1]
             normalized == normalizeChannelUrl(url)
             hits == {i \in DOMAIN S.map : normalizeChannelUrl(S.map[i].key) = normalized}
             assigned == IF MapHas(S.map, normalized) THEN MapGet(S.map, normalized)
                         ELSE IF MapHas(S.map, url) THEN MapGet(S.map, url)
                         ELSE IF hits # {} THEN S.map[Min(hits)].tags
                         ELSE <<>>
         IN  \E i \in DOMAIN assigned : assigned[i] \in S.tags


\* ------------------------------------------------------------------------
\* Page Detection
\* ------------------------------------------------------------------------
FEED == Url(YT_ORIGIN, <<"feed", "subscriptions">>, FALSE)
CHANNEL_A == Url(YT_ORIGIN, <<"@a">>, FALSE)
CHANNEL_B == Url(YT_ORIGIN, <<"@b">>, FALSE)
WATCH == Url(YT_ORIGIN, <<"watch">>, FALSE)

Paths == {FEED, CHANNEL_A, CHANNEL_B, WATCH}

isSubscriptionsFeed(p) == p.segs = <<"feed", "subscriptions">> /\ ~p.slash

isChannelPage(p) ==
    \/ PathStartsWithAt(p)
    \/ (Len(p.segs) >= 1 /\ p.segs[1] = "channel" /\ (Len(p.segs) > 1 \/ p.slash))
    \/ PathStartsWithC(p)

getChannelPageUrl(p) ==
    IF PathStartsWithAt(p) THEN Url(p.origin, <<p.segs[1]>>, FALSE)
    ELSE IF Len(p.segs) >= 2 /\ p.segs[1] \in {"channel", "c"}
    THEN Url(p.origin, <<p.segs[1], p.segs[2]>>, FALSE)
    ELSE p

\* ------------------------------------------------------------------------
\* The document.  dom.cards[c] is a card element slot: attached says that a
\* card element is in the page, content names what the host page renders in
\* it, shadow says it lives in the shadow root of ytd-app (and not in the
\* document tree), urlMark is the attribute
\* data-ytx-channel-url (<<>> when absent), cardMark is data-ytx-tag-btn="1",
\* buttons are the button[data-ytx-tag-button] elements of its subtree in document
\* order, display is style.display.
\* ------------------------------------------------------------------------
Cards == 1..NumCards

Tags == {"t1", "t2"}

NoCard ==
    [attached |-> FALSE, content |-> "none", shadow |-> FALSE, urlMark |-> <<>>,
     cardMark |-> FALSE, buttons |-> <<>>, display |-> ""]

\* createTagButton: the attribute data-channel-url and the channelUrl the
\* click listener closes over are the same value; click counts the click
\* listeners added, parent is the element the caller appends the button to,
\* fresh says that the handler running now created the element
createTagButton(S, config) ==
    [variant |-> config.variant,
     channelUrl |-> config.channelUrl,
     channelName |-> config.channelName,
     text |-> getTagButtonLabel(S, config.channelUrl),
     display |-> "",
     click |-> 1,
     parent |-> "unattached",
     fresh |-> TRUE]

\* dispatchAssign: the detail of the ytx-open-assign event
dispatchAssign(channelUrl, channelName, x, y) ==
    [channelUrl |-> channelUrl, channelName |-> channelName, x |-> x, y |-> y]


\* ------------------------------------------------------------------------
\* What the host page renders in a card: its anchors, its marker subtree and
\* whether one of THUMBNAIL_SELECTORS matches in it.
\* ------------------------------------------------------------------------
Rel(segs, slash) == Url("", segs, slash)

ContentNames == {"A", "B", "A2", "N"}

\* the contents the feed of the pipeline specification renders
FeedContents == {"A", "B", "N"}

Content(name) ==
    CASE name = "A" ->
           \* avatar link and channel-name link to /@a; a plain video
           [links |-> << Link(Rel(<<"@a">>, FALSE), "", TRUE, {}, FALSE),
                         Link(Rel(<<"watch">>, FALSE), "Title", FALSE, {}, FALSE),
                         Link(Rel(<<"@a">>, FALSE), "Alpha", FALSE, {"ytd-channel-name"}, FALSE) >>,
            tree |-> << El(0, FALSE, "none") >>,
            thumb |-> TRUE]
      [] name = "B" ->
           \* channel-name link to /@b; a short that also carries a live badge
           [links |-> << Link(Rel(<<"shorts">>, TRUE), "Title", FALSE, {}, FALSE),
                         Link(Rel(<<"@b">>, FALSE), "Beta", FALSE, {"ytd-channel-name"}, FALSE) >>,
            tree |-> << El(0, FALSE, "shortsLink"), El(0, FALSE, "liveBadge") >>,
            thumb |-> TRUE]
      [] name = "A2" ->
           \* only an unnamed plain link to /@A/ ; an upcoming stream
           [links |-> << Link(Rel(<<"watch">>, FALSE), "Title", FALSE, {}, FALSE),
                         Link(Rel(<<"@A">>, TRUE), "", FALSE, {}, FALSE) >>,
            tree |-> << El(0, FALSE, "upcomingOverlay") >>,
            thumb |-> FALSE]
      [] name = "N" ->
           \* no channel link outside the options menu; live badge in a shadow root
           [links |-> << Link(Rel(<<"watch">>, FALSE), "Title", FALSE, {}, FALSE),
                         Link(Rel(<<"@b">>, FALSE), "Beta", FALSE, {}, TRUE) >>,
            tree |-> << El(0, FALSE, "none"), El(1, TRUE, "liveBadge") >>,
            thumb |-> FALSE]

\* ------------------------------------------------------------------------
\* Tag Button Injection
\* ------------------------------------------------------------------------
updateTagButtonLabels(S, D) ==
    LET relabel(btns) ==
            [i \in DOMAIN btns |-> [btns[i] EXCEPT !.text = getTagButtonLabel(S, btns[i].channelUrl)]]
    IN  [D EXCEPT
           !.cards = [c \in DOMAIN D.cards |->
                        IF D.cards[c].attached /\ ~D.cards[c].shadow
                        THEN [D.cards[c] EXCEPT !.buttons = relabel(D.cards[c].buttons)]
                        ELSE D.cards[c]],
           !.headerBtns = relabel(D.headerBtns)]

\* addTagButtonToChannelHeader without the check for an existing control
addTagButtonToChannelHeader_NoGuard(p, S, D) ==
    IF ~isChannelPage(p) THEN D
    ELSE LET channelName == IF D.header.nameEl /\ D.header.nameText # ""
                            THEN D.header.nameText ELSE "Channel"
             btn == createTagButton(S, [channelUrl |-> getChannelPageUrl(p),
                                        channelName |-> channelName,
                                        variant |-> "header"])
         IN  IF D.header.nameEl
             THEN [D EXCEPT !.headerBtns = Append(@, [btn EXCEPT !.parent = "name"])]
             ELSE IF D.header.container
             THEN [D EXCEPT !.headerBtns = Append(@, [btn EXCEPT !.parent = "container"])]
             ELSE D

\* D.header is the channel header the page renders: nameEl says one of
\* CHANNEL_NAME_SELECTORS matches, nameText is its trimmed text, container
\* says #page-header or #contentContainer exists.  D.kept records that the
\* handler found a header control in the document and returned
addTagButtonToChannelHeader(p, S, D) ==
    IF ~isChannelPage(p) THEN D
    ELSE IF D.headerBtns # <<>> THEN [D EXCEPT !.kept = TRUE]
    ELSE LET channelName == IF D.header.nameEl /\ D.header.nameText # ""
                            THEN D.header.nameText ELSE "Channel"
             btn == createTagButton(S, [channelUrl |-> getChannelPageUrl(p),
                                        channelName |-> channelName,
                                        variant |-> "header"])
         IN  IF D.header.nameEl
             THEN [D EXCEPT !.headerBtns = Append(@, [btn EXCEPT !.parent = "name"])]
             ELSE IF D.header.container
             THEN [D EXCEPT !.headerBtns = Append(@, [btn EXCEPT !.parent = "container"])]
             ELSE D

\* addTagButtonToCard without the marker check and without the removal
addTagButtonToCard_NoGuard(S, card) ==
    LET link == findChannelLink(Content(card.content).links)
    IN  IF link = <<>> THEN card
        ELSE
          LET href == Href(link[1].attr)
              channelName == IF link[1].text # "" THEN link[1].text ELSE "Channel"
              btn == createTagButton(S, [channelUrl |-> href,
                                         channelName |-> channelName,
                                         variant |-> "card"])
          IN  [card EXCEPT !.urlMark = <<href>>,
                           !.buttons = Append(@, [btn EXCEPT !.parent = "thumbnail"]),
                           !.cardMark = TRUE]

\* addTagButtonToCard that replaces the control on every pass
addTagButtonToCard_Recreate(S, card) ==
    LET link == findChannelLink(Content(card.content).links)
    IN  IF link = <<>> THEN card
        ELSE
          LET href == Href(link[1].attr)
              channelName == IF link[1].text # "" THEN link[1].text ELSE "Channel"
              btn == createTagButton(S, [channelUrl |-> href,
                                         channelName |-> channelName,
                                         variant |-> "card"])
          IN  [card EXCEPT !.urlMark = <<href>>,
                           !.buttons = <<[btn EXCEPT !.parent = "thumbnail"]>>,
                           !.cardMark = TRUE]

addTagButtonToCard(S, card) ==
    LET link == findChannelLink(Content(card.content).links)
    IN  IF link = <<>> THEN card
        ELSE
          LET href == Href(link[1].attr)
              card1 == [card EXCEPT !.urlMark = <<href>>]
              existing == card1.buttons # <<>>
              currentUrl == card1.urlMark
              marked == card1.cardMark
          IN  IF marked /\ existing /\ currentUrl = <<href>> THEN card1
              ELSE
                LET rest == IF existing THEN Tail(card1.buttons) ELSE card1.buttons
                    channelName == IF link[1].text # "" THEN link[1].text ELSE "Channel"
                    btn == createTagButton(S, [channelUrl |-> href,
                                               channelName |-> channelName,
                                               variant |-> "card"])
                    placed == [btn EXCEPT !.parent = IF Content(card.content).thumb
                                                     THEN "thumbnail" ELSE "card"]
                IN  [card1 EXCEPT !.buttons = Append(rest, placed), !.cardMark = TRUE]

\* ------------------------------------------------------------------------
\* Context Menu Integration.  D.popups[i] is a listbox of an options popup
\* in the document: the injected entries (elements with data-ytx-menu-item)
\* of its subtree.  fresh says that the handler running now created the
\* entry, seen that the handler running now found it in the listbox.
\* ------------------------------------------------------------------------
\* injectMenuItem without the check for an entry in the listbox
injectMenuItem_NoGuard(D) ==
    [D EXCEPT !.popups = [i \in DOMAIN @ |->
                            Append(@[i], [fresh |-> TRUE, seen |-> FALSE])]]

injectMenuItem(D) ==
    [D EXCEPT !.popups = [i \in DOMAIN @ |->
                            IF @[i] # <<>>
                            THEN [j \in DOMAIN @[i] |->
                                    IF j = 1 THEN [@[i][j] EXCEPT !.seen = TRUE] ELSE @[i][j]]
                            ELSE << [fresh |-> TRUE, seen |-> FALSE] >>]]

\* ------------------------------------------------------------------------
\* Content Type & Filtering
\* ------------------------------------------------------------------------
\* D.shelves[i] is a shelf element (ytd-rich-shelf-renderer or
\* ytd-reel-shelf-renderer) of the document: items names what each of its
\* items is, display is style.display.  An item that is a short carries a
\* link whose href attribute starts with /shorts/.
\* shelf.querySelector('a[href^="/shorts/"]')
hasShortsContent(shelf) == \E k \in DOMAIN shelf.items : shelf.items[k] = "short"

\* matchesContentTypeFilter that reads the toggle under the classified type
\* itself, so that "video" finds no toggle
matchesContentTypeFilter_NoVideosKey(S, card) ==
    LET type == getContentType(Content(card.content).tree)
    IN  type \in DOMAIN S.types /\ S.types[type] = TRUE

matchesContentTypeFilter(S, card) ==
    LET type == getContentType(Content(card.content).tree)
        filterKey == IF type = "video" THEN "videos" ELSE type
    IN  S.types[filterKey] = TRUE

\* the cards of the document and of ytd-app's shadow root
queryAllCards(D) == {c \in DOMAIN D.cards : D.cards[c].attached}

\* applyFilter that takes one disabled content type for all of them
applyFilter_AnyTypeOff(p, S, D) ==
    IF ~isSubscriptionsFeed(p) THEN D
    ELSE
      LET allContentDisabled ==
              ~S.types["shorts"] \/ ~S.types["videos"] \/ ~S.types["live"] \/ ~S.types["upcoming"]
          warning1 ==
              IF allContentDisabled
              THEN (IF D.warning # "absent" \/ D.gridContainer THEN "flex" ELSE "absent")
              ELSE (IF D.warning # "absent" THEN "none" ELSE "absent")
          hasActiveTagFilters == S.tags # {}
          show(c) == matchesTagFilter(S, D.cards[c].urlMark)
                     /\ matchesContentTypeFilter(S, D.cards[c])
          hide(btns) ==
              [i \in DOMAIN btns |->
                 [btns[i] EXCEPT !.display = IF hasActiveTagFilters THEN "none" ELSE ""]]
      IN  [D EXCEPT
             !.warning = warning1,
             !.continuation = IF allContentDisabled THEN "none" ELSE "",
             !.shelves = [i \in DOMAIN @ |->
                            IF hasShortsContent(@[i])
                            THEN [@[i] EXCEPT !.display = IF S.types["shorts"] THEN "" ELSE "none"]
                            ELSE @[i]],
             !.cards = [c \in DOMAIN D.cards |->
                          IF c \in queryAllCards(D)
                          THEN [D.cards[c] EXCEPT
                                  !.display = IF show(c) THEN "" ELSE "none",
                                  !.buttons = IF D.cards[c].shadow THEN @ ELSE hide(@)]
                          ELSE D.cards[c]]]

\* applyFilter that takes a hidden card out of the document
applyFilter_DetachHidden(p, S, D) ==
    IF ~isSubscriptionsFeed(p) THEN D
    ELSE
      LET allContentDisabled ==
              ~S.types["shorts"] /\ ~S.types["videos"] /\ ~S.types["live"] /\ ~S.types["upcoming"]
          warning1 ==
              IF allContentDisabled
              THEN (IF D.warning # "absent" \/ D.gridContainer THEN "flex" ELSE "absent")
              ELSE (IF D.warning # "absent" THEN "none" ELSE "absent")
          hasActiveTagFilters == S.tags # {}
          show(c) == matchesTagFilter(S, D.cards[c].urlMark)
                     /\ matchesContentTypeFilter(S, D.cards[c])
          hide(btns) ==
              [i \in DOMAIN btns |->
                 [btns[i] EXCEPT !.display = IF hasActiveTagFilters THEN "none" ELSE ""]]
      IN  [D EXCEPT
             !.warning = warning1,
             !.continuation = IF allContentDisabled THEN "none" ELSE "",
             !.shelves = [i \in DOMAIN @ |->
                            IF hasShortsContent(@[i])
                            THEN [@[i] EXCEPT !.display = IF S.types["shorts"] THEN "" ELSE "none"]
                            ELSE @[i]],
             !.cards = [c \in DOMAIN D.cards |->
                          IF c \in queryAllCards(D)
                          THEN (IF show(c)
                                THEN [D.cards[c] EXCEPT
                                        !.display = "",
                                        !.buttons = IF D.cards[c].shadow THEN @ ELSE hide(@)]
                                ELSE NoCard)
                          ELSE D.cards[c]]]

applyFilter(p, S, D) ==
    IF ~isSubscriptionsFeed(p) THEN D
    ELSE
      LET allContentDisabled ==
              ~S.types["shorts"] /\ ~S.types["videos"] /\ ~S.types["live"] /\ ~S.types["upcoming"]
          warning1 ==
              IF allContentDisabled
              THEN (IF D.warning # "absent" \/ D.gridContainer THEN "flex" ELSE "absent")
              ELSE (IF D.warning # "absent" THEN "none" ELSE "absent")
          hasActiveTagFilters == S.tags # {}
          show(c) == matchesTagFilter(S, D.cards[c].urlMark)
                     /\ matchesContentTypeFilter(S, D.cards[c])
          hide(btns) ==
              [i \in DOMAIN btns |->
                 [btns[i] EXCEPT !.display = IF hasActiveTagFilters THEN "none" ELSE ""]]
      IN  [D EXCEPT
             !.warning = warning1,
             !.continuation = IF allContentDisabled THEN "none" ELSE "",
             !.shelves = [i \in DOMAIN @ |->
                            IF hasShortsContent(@[i])
                            THEN [@[i] EXCEPT !.display = IF S.types["shorts"] THEN "" ELSE "none"]
                            ELSE @[i]],
             !.cards = [c \in DOMAIN D.cards |->
                          IF c \in queryAllCards(D)
                          THEN [D.cards[c] EXCEPT
                                  !.display = IF show(c) THEN "" ELSE "none",
                                  !.buttons = IF D.cards[c].shadow THEN @ ELSE hide(@)]
                          ELSE D.cards[c]]]

\* ------------------------------------------------------------------------
\* Main Scan & Init
\* ------------------------------------------------------------------------
\* scanAndInject that stops at the first card without a channel link, as a
\* throw in the loop would: the cards after it and the filter are not reached
scanAndInject_AbortOnMiss(p, S, D) ==
    LET D1 == IF isChannelPage(p) THEN addTagButtonToChannelHeader(p, S, D) ELSE D
        misses == {c \in queryAllCards(D1) :
                     findChannelLink(Content(D1.cards[c].content).links) = <<>>}
        D2 == [D1 EXCEPT !.cards = [c \in DOMAIN D1.cards |->
                                      IF /\ c \in queryAllCards(D1)
                                         /\ \A m \in misses : c < m
                                      THEN addTagButtonToCard(S, D1.cards[c])
                                      ELSE D1.cards[c]]]
    IN  IF ~isSubscriptionsFeed(p) THEN D1
        ELSE IF misses # {} THEN D2
        ELSE applyFilter(p, S, injectMenuItem(D2))

\* scanAndInject without the early return off the feed
scanAndInject_NoReturn(p, S, D) ==
    LET D1 == IF isChannelPage(p) THEN addTagButtonToChannelHeader(p, S, D) ELSE D
    IN  applyFilter(p, S,
          injectMenuItem(
            [D1 EXCEPT !.cards = [c \in DOMAIN D1.cards |->
                                    IF c \in queryAllCards(D1)
                                    THEN addTagButtonToCard(S, D1.cards[c])
                                    ELSE D1.cards[c]]]))

scanAndInject(p, S, D) ==
    LET D1 == IF isChannelPage(p) THEN addTagButtonToChannelHeader(p, S, D) ELSE D
    IN  IF ~isSubscriptionsFeed(p) THEN D1
        ELSE applyFilter(p, S,
               injectMenuItem(
                 [D1 EXCEPT !.cards = [c \in DOMAIN D1.cards |->
                                         IF c \in queryAllCards(D1)
                                         THEN addTagButtonToCard(S, D1.cards[c])
                                         ELSE D1.cards[c]]]))

\* checkPath that re-scans without removing the header control
checkPath_NoTeardown(p, lp, S, D) ==
    IF p # lp THEN scanAndInject(p, S, D) ELSE D

\* checkPath, on a changed path: the document it leaves.  D.removed records
\* that the handler took out a header control that was there when it started
checkPath(p, lp, S, D) ==
    IF p # lp
    THEN scanAndInject(p, S,
           [D EXCEPT !.headerBtns = IF @ # <<>> THEN Tail(@) ELSE @,
                     !.removed = @ \/ (D.headerBtns # <<>> /\ ~D.headerBtns[1].fresh)])
    ELSE D


\* ------------------------------------------------------------------------
\* The filter-change event.  present says the event has a detail; hasTags,
\* hasMap, hasTypes say the detail has the field; the contentTypes object is
\* given by the keys it sets to true (on) and to false (off).
\* ------------------------------------------------------------------------
Detail(present, hasTags, activeTags, hasMap, channelTags, hasTypes, on, off) ==
    [present |-> present, hasTags |-> hasTags, activeTags |-> activeTags,
     hasMap |-> hasMap, channelTags |-> channelTags,
     hasTypes |-> hasTypes, on |-> on, off |-> off]

\* no filter-change event: the value of detail after any other step
NoDetail == Detail(FALSE, FALSE, {}, FALSE, <<>>, FALSE, {}, {})

KEY_A == Url(YT_ORIGIN, <<"@a">>, FALSE)
KEY_A_RAW == Url(YT_ORIGIN, <<"@A">>, TRUE)
KEY_B == Url(YT_ORIGIN, <<"@b">>, FALSE)

Entry(key, tags) == [key |-> key, tags |-> tags]

\* the events the panel dispatches (App: activeTags has at most one tag, all
\* three fields are present, contentTypes has all four keys)
PanelMaps ==
    { <<>>,
      << Entry(KEY_A_RAW, <<"t1", "t2">>), Entry(KEY_B, <<"t2">>) >> }

PanelTypes == { TypeKeys, TypeKeys \ {"shorts"}, {} }

PanelDetails ==
    { Detail(TRUE, TRUE, a, TRUE, m, TRUE, on, TypeKeys \ on) :
        a \in {{}, {"t1"}}, m \in PanelMaps, on \in PanelTypes }

\* filterStore that keeps the active tags when the event has none
filterStore_KeepTags(S, d) ==
    Store(IF d.hasTags THEN d.activeTags ELSE S.tags,
          IF d.hasMap THEN d.channelTags ELSE <<>>,
          IF d.hasTypes
          THEN [k \in TypeKeys |->
                  IF k \in d.on THEN TRUE
                  ELSE IF k \in d.off THEN FALSE
                  ELSE DEFAULT_CONTENT_TYPES[k]]
          ELSE S.types)

\* filterStore that merges the event's contentTypes over the current toggles
filterStore_MergeCurrent(S, d) ==
    Store(IF d.hasTags THEN d.activeTags ELSE {},
          IF d.hasMap THEN d.channelTags ELSE <<>>,
          IF d.hasTypes
          THEN [k \in TypeKeys |->
                  IF k \in d.on THEN TRUE
                  ELSE IF k \in d.off THEN FALSE
                  ELSE S.types[k]]
          ELSE S.types)

\* lines 619-623 of the listener: the store after the three writes
filterStore(S, d) ==
    Store(IF d.hasTags THEN d.activeTags ELSE {},
          IF d.hasMap THEN d.channelTags ELSE <<>>,
          IF d.hasTypes
          THEN [k \in TypeKeys |->
                  IF k \in d.on THEN TRUE
                  ELSE IF k \in d.off THEN FALSE
                  ELSE DEFAULT_CONTENT_TYPES[k]]
          ELSE S.types)

\* the listener that refreshes labels and filters after the first write, and
\* writes the other two fields afterwards
filterListener_NotifyBetween(p, S, D, d) ==
    IF ~d.present THEN [store |-> S, dom |-> D]
    ELSE LET S1 == filterStore(S, d)
             mixed == Store(S1.tags, S.map, S.types)
         IN  [store |-> S1, dom |-> applyFilter(p, mixed, updateTagButtonLabels(mixed, D))]

\* the listener of attachFilterListener: the store and the document it leaves
filterListener(p, S, D, d) ==
    IF ~d.present THEN [store |-> S, dom |-> D]
    ELSE LET S1 == filterStore(S, d)
         IN  [store |-> S1, dom |-> applyFilter(p, S1, updateTagButtonLabels(S1, D))]

\* ------------------------------------------------------------------------
\* The panel (App.tsx).  A tag name and a tag id are strings, modelled by the
\* sequence of their pieces: a piece is one whitespace character (" "), a
\* hyphen, a decimal number or a word.
\* ------------------------------------------------------------------------
Tag(id, name, color) == [id |-> id, name |-> name, color |-> color]

DEFAULT_TAGS ==
    << Tag(<<"racing">>, <<"Racing">>, "#7a5cff"),
       Tag(<<"games">>, <<"Games">>, "#30c4ff") >>

RECURSIVE TrimStart(_)
TrimStart(s) == IF s # <<>> /\ s[1] = " " THEN TrimStart(Tail(s)) ELSE s

RECURSIVE TrimEnd(_)
TrimEnd(s) ==
    IF s # <<>> /\ s[Len(s)] = " " THEN TrimEnd(SubSeq(s, 1, Len(s) - 1)) ELSE s

\* String.prototype.trim
Trim(s) == TrimEnd(TrimStart(s))

\* replace(/\s+/g, "-"): every run of whitespace becomes one hyphen
RECURSIVE ReplaceSpaceRuns(_)
ReplaceSpaceRuns(s) ==
    IF s = <<>> THEN <<>>
    ELSE IF s[1] = " " THEN <<"-">> \o ReplaceSpaceRuns(TrimStart(s))
    ELSE <<s[1]>> \o ReplaceSpaceRuns(Tail(s))

slugify(value) ==
    LET t == Trim(value)
    IN  ReplaceSpaceRuns([i \in DOMAIN t |-> ToLowerCase(t[i])])

\* `${base}-${i}`
Suffixed(base, i) == base \o <<"-", ToString(i)>>

TagIds(tags) == {tags[k].id : k \in DOMAIN tags}

\* the while loop of uniqueId: the first i from `from` on whose id is unused
RECURSIVE FirstUnused(_, _, _)
FirstUnused(base, existing, from) ==
    IF Suffixed(base, from) \in TagIds(existing)
    THEN FirstUnused(base, existing, from + 1)
    ELSE from

\* uniqueId that never looks past the suffix 2
uniqueId_AlwaysTwo(base, existing) ==
    IF base \notin TagIds(existing) THEN base ELSE Suffixed(base, 2)

uniqueId(base, existing) ==
    IF base \notin TagIds(existing) THEN base
    ELSE Suffixed(base, FirstUnused(base, existing, 2))

\* The state of the App component.  mounted: its effects have run and its
\* listener is on window; pending: the value loadData's promise resolves to,
\* while it is in flight; activeTag and assignChannel: <<>> is null;
\* errors counts the errors its calls raised.
App0 ==
    [mounted |-> FALSE, pending |-> <<>>,
     tags |-> DEFAULT_TAGS, activeTag |-> <<>>, newTag |-> <<>>,
     channelTags |-> <<>>, contentTypes |-> DEFAULT_CONTENT_TYPES,
     panelOpen |-> TRUE, assignOpen |-> FALSE, assignChannel |-> <<>>,
     errors |-> 0]

\* A storage area: every key holds <<v>>, or <<>> when it was never set
Area(tags, channelTags, contentTypes, panelOpen, activeFilters) ==
    [tags |-> tags, channelTags |-> channelTags, contentTypes |-> contentTypes,
     panelOpen |-> panelOpen, activeFilters |-> activeFilters]

EmptyArea == Area(<<>>, <<>>, <<>>, <<>>, <<>>)

\* storageArea: <<>> is null
storageArea(st) == st

Loaded(tags, channelTags, contentTypes, panelOpen, activeFilters) ==
    [tags |-> tags, channelTags |-> channelTags, contentTypes |-> contentTypes,
     panelOpen |-> panelOpen, activeFilters |-> activeFilters]

\* v ?? d
Coalesce(v, d) == IF v # <<>> THEN v[1] ELSE d

loadData(st) ==
    IF storageArea(st) = <<>>
    THEN Loaded(DEFAULT_TAGS, <<>>, DEFAULT_CONTENT_TYPES, TRUE, <<>>)
    ELSE LET r == storageArea(st)[1]
         IN  Loaded(Coalesce(r.tags, DEFAULT_TAGS), Coalesce(r.channelTags, <<>>),
                    Coalesce(r.contentTypes, DEFAULT_CONTENT_TYPES),
                    Coalesce(r.panelOpen, TRUE), Coalesce(r.activeFilters, <<>>))

\* the result of a save: the storage it leaves and whether the call raised
Saved(st, threw) == [storage |-> st, threw |-> threw]

\* saveData that calls area.set without looking whether there is an area
saveData_NoGuard(st, tags, channelTags, contentTypes) ==
    IF storageArea(st) = <<>> THEN Saved(st, TRUE)
    ELSE Saved(<< [st[1] EXCEPT !.tags = <<tags>>,
                                !.channelTags = <<channelTags>>,
                                !.contentTypes = <<contentTypes>>] >>, FALSE)

\* saveData as App calls it, without the panelOpen argument
saveData(st, tags, channelTags, contentTypes) ==
    IF storageArea(st) = <<>> THEN Saved(st, FALSE)
    ELSE Saved(<< [st[1] EXCEPT !.tags = <<tags>>,
                                !.channelTags = <<channelTags>>,
                                !.contentTypes = <<contentTypes>>] >>, FALSE)

savePanelOpen(st, panelOpen) ==
    IF storageArea(st) = <<>> THEN Saved(st, FALSE)
    ELSE Saved(<< [st[1] EXCEPT !.panelOpen = <<panelOpen>>] >>, FALSE)

\* the effect on activeTag: the active filter is saved as an array
saveActiveFilters(st, activeTag) ==
    IF storageArea(st) = <<>> THEN Saved(st, FALSE)
    ELSE Saved(<< [st[1] EXCEPT !.activeFilters = <<activeTag>>] >>, FALSE)

\* the detail of the ytx-filter-change event the panel dispatches
filterChangeDetail(P) ==
    Detail(TRUE, TRUE, Range(P.activeTag), TRUE, P.channelTags, TRUE,
           {k \in TypeKeys : P.contentTypes[k]},
           {k \in TypeKeys : ~P.contentTypes[k]})

\* The effects React runs after a render in which the state variables of
\* `changed` got a new value: the three saves, in the order of their
\* declaration, and the event of the filter-change effect.
StateKeys == {"tags", "channelTags", "contentTypes", "panelOpen", "activeTag"}

Effects(P, st, changed) ==
    LET s1 == IF changed \cap {"tags", "channelTags", "contentTypes"} # {}
              THEN saveData(st, P.tags, P.channelTags, P.contentTypes)
              ELSE Saved(st, FALSE)
        s2 == IF "panelOpen" \in changed
              THEN savePanelOpen(s1.storage, P.panelOpen)
              ELSE Saved(s1.storage, FALSE)
        s3 == IF "activeTag" \in changed
              THEN saveActiveFilters(s2.storage, P.activeTag)
              ELSE Saved(s2.storage, FALSE)
        n  == Cardinality({s \in {<<1, s1>>, <<2, s2>>, <<3, s3>>} : s[2].threw})
    IN  [panel |-> [P EXCEPT !.errors = @ + n],
         storage |-> s3.storage,
         detail |-> IF changed \cap {"activeTag", "channelTags", "contentTypes"} # {}
                    THEN filterChangeDetail(P)
                    ELSE NoDetail]

toggleFilter(P, id) ==
    [P EXCEPT !.activeTag = IF @ = <<id>> THEN <<>> ELSE <<id>>]

toggleContentType(P, key) ==
    [P EXCEPT !.contentTypes[key] = ~@]

createTag(P) ==
    LET name == Trim(P.newTag)
    IN  IF name = <<>> THEN P
        ELSE [P EXCEPT !.tags = Append(@, Tag(uniqueId(slugify(name), P.tags),
                                              name, "#ff4d5a")),
                       !.newTag = <<>>]

\* deleteTag that leaves the channel assignments alone
deleteTag_NoCascade(P, id) ==
    [P EXCEPT !.tags = SelectSeq(@, LAMBDA t : t.id # id)]

deleteTag(P, id) ==
    [P EXCEPT !.tags = SelectSeq(@, LAMBDA t : t.id # id),
              !.channelTags =
                  [k \in DOMAIN @ |->
                     Entry(@[k].key, SelectSeq(@[k].tags, LAMBDA t : t # id))]]

\* { ...prev, [key]: updated }: the key keeps its place, a new key goes last
MapPut(m, key, tags) ==
    IF MapHas(m, key)
    THEN [k \in DOMAIN m |-> IF m[k].key = key THEN Entry(key, tags) ELSE m[k]]
    ELSE Append(m, Entry(key, tags))

toggleAssign(P, id) ==
    IF P.assignChannel = <<>> THEN P
    ELSE LET key == normalizeChannelUrl(P.assignChannel[1].channelUrl)
             current == IF MapHas(P.channelTags, key)
                        THEN MapGet(P.channelTags, key) ELSE <<>>
             updated == IF id \in Range(current)
                        THEN SelectSeq(current, LAMBDA t : t # id)
                        ELSE Append(current, id)
         IN  [P EXCEPT !.channelTags = MapPut(@, key, updated)]

\* the ytx-open-assign handler that opens the popover for every event
openAssign_NoCheck(P, d) ==
    [P EXCEPT !.assignChannel = <<d>>, !.assignOpen = TRUE]

\* the ytx-open-assign handler; an absent or empty channelUrl is NoUrl
openAssign(P, d) ==
    IF d.channelUrl = NoUrl THEN P
    ELSE [P EXCEPT !.assignChannel = <<d>>, !.assignOpen = TRUE]

\* window.dispatchEvent for each event in turn: the panel listens once mounted
RECURSIVE deliverAssign(_, _)
deliverAssign(P, events) ==
    IF events = <<>> \/ ~P.mounted THEN P
    ELSE deliverAssign(openAssign(P, Head(events)), Tail(events))

\* ------------------------------------------------------------------------
\* State machine
\* ------------------------------------------------------------------------
HeaderLayouts ==
    { [nameEl |-> TRUE, nameText |-> "Alpha", container |-> TRUE],
      [nameEl |-> TRUE, nameText |-> "", container |-> FALSE],
      [nameEl |-> FALSE, nameText |-> "", container |-> TRUE],
      [nameEl |-> FALSE, nameText |-> "", container |-> FALSE] }

NoHeader == [nameEl |-> FALSE, nameText |-> "", container |-> FALSE]

S0 == Store(activeFilterTags, channelTagMap, contentTypeFilters)

\* the document as a handler finds it: no element is of its own making yet
Settle(D) ==
    LET old(btns) == [i \in DOMAIN btns |-> [btns[i] EXCEPT !.fresh = FALSE]]
    IN  [D EXCEPT !.cards = [c \in DOMAIN D.cards |-> [D.cards[c] EXCEPT !.buttons = old(@)]],
                  !.headerBtns = old(@),
                  !.popups = [i \in DOMAIN @ |->
                                [j \in DOMAIN @[i] |-> [fresh |-> FALSE, seen |-> FALSE]]],
                  !.removed = FALSE,
                  !.kept = FALSE]

InitDom ==
    [cards |-> [c \in Cards |-> NoCard],
     header |-> NoHeader,
     headerBtns |-> <<>>,
     warning |-> "absent",
     continuation |-> "",
     gridContainer |-> TRUE,
     popups |-> <<>>,
     shelves |-> <<>>,
     removed |-> FALSE,
     kept |-> FALSE]

Init ==
    /\ path = FEED
    /\ lastPath = FEED
    /\ dom = InitDom
    /\ activeFilterTags = {}
    /\ channelTagMap = <<>>
    /\ contentTypeFilters = DEFAULT_CONTENT_TYPES
    /\ detail = NoDetail
    /\ assign = <<>>
    /\ ctree = <<>>
    /\ ctype = "unset"
    /\ nurl = NoUrl
    /\ nkey = <<>>
    /\ nlook = <<>>
    /\ panel = App0
    /\ storage = <<>>
    /\ rlinks = <<>>
    /\ rout = <<>>
    /\ records = FALSE
    /\ lastMenuCard = <<>>
    /\ requests = <<>>

\* what the two observers do with one batch of records
handleBatch(p, lp, S, D) == checkPath(p, lp, S, scanAndInject(p, S, D))

\* observers that clear the active tags before they run
observerStore_ClearsTags(S) == Store({}, S.map, S.types)

\* the store the two observers leave: scanAndInject, applyFilter and
\* checkPath read the three variables and assign none
observerStore(S) == S

\* a mutation batch: the observer of observeFeed runs scanAndInject, then the
\* observer of init runs checkPath
MutationBatch ==
    /\ dom' = handleBatch(path, lastPath, observerStore(S0), Settle(dom))
    /\ activeFilterTags' = observerStore(S0).tags
    /\ channelTagMap' = observerStore(S0).map
    /\ contentTypeFilters' = observerStore(S0).types
    /\ lastPath' = path
    /\ detail' = NoDetail
    /\ assign' = <<>>
    /\ UNCHANGED <<path, ctree, ctype, nurl, nkey, nlook,
                   panel, storage, rlinks, rout, records, lastMenuCard, requests>>

\* the popstate listener: checkPath
Popstate ==
    /\ dom' = checkPath(path, lastPath, S0, Settle(dom))
    /\ lastPath' = path
    /\ detail' = NoDetail
    /\ assign' = <<>>
    /\ UNCHANGED <<path, activeFilterTags, channelTagMap, contentTypeFilters, ctree, ctype, nurl, nkey, nlook,
                   panel, storage, rlinks, rout, records,
                   lastMenuCard, requests>>

\* the ytx-filter-change listener
FilterChange(d) ==
    LET out == filterListener(path, S0, Settle(dom), d)
    IN  /\ activeFilterTags' = out.store.tags
        /\ channelTagMap' = out.store.map
        /\ contentTypeFilters' = out.store.types
        /\ dom' = out.dom
        /\ detail' = d
        /\ assign' = <<>>
        /\ UNCHANGED <<path, lastPath, ctree, ctype, nurl, nkey, nlook,
                   panel, storage, rlinks, rout, records,
                   lastMenuCard, requests>>

\* where the pointer is when a control is clicked
ClickPoints == { [x |-> 120, y |-> 80], [x |-> 640, y |-> 360] }

\* the events the click listeners of a control dispatch for one click
clickEvents(btn, pos) ==
    [k \in 1..btn.click |->
       dispatchAssign(btn.channelUrl, btn.channelName, pos.x, pos.y)]

\* the click listener of a card's control; the panel handles the event
ClickCardButton(c) ==
    /\ dom.cards[c].attached
    /\ dom.cards[c].display = ""
    /\ \E i \in DOMAIN dom.cards[c].buttons, pos \in ClickPoints :
         /\ dom.cards[c].buttons[i].display = ""
         /\ assign' = clickEvents(dom.cards[c].buttons[i], pos)
    /\ panel' = deliverAssign(panel, assign')
    /\ detail' = NoDetail
    /\ UNCHANGED <<path, lastPath, dom, activeFilterTags, channelTagMap,
                   contentTypeFilters, ctree, ctype, nurl, nkey, nlook,
                   storage, rlinks, rout, records,
                   lastMenuCard, requests>>

\* the click listener of the channel header control
ClickHeaderButton ==
    /\ \E i \in DOMAIN dom.headerBtns, pos \in ClickPoints :
         assign' = clickEvents(dom.headerBtns[i], pos)
    /\ panel' = deliverAssign(panel, assign')
    /\ detail' = NoDetail
    /\ UNCHANGED <<path, lastPath, dom, activeFilterTags, channelTagMap,
                   contentTypeFilters, ctree, ctype, nurl, nkey, nlook,
                   storage, rlinks, rout, records,
                   lastMenuCard, requests>>

HostStep(D) ==
    /\ dom' = Settle(D)
    /\ detail' = NoDetail
    /\ assign' = <<>>
    /\ UNCHANGED <<path, lastPath, activeFilterTags, channelTagMap,
                   contentTypeFilters, ctree, ctype, nurl, nkey, nlook,
                   panel, storage, rlinks, rout, records,
                   lastMenuCard, requests>>

\* the host page adds a card element, to the document or to ytd-app's shadow root
HostAttachCard(c, content, shadow) ==
    /\ ~dom.cards[c].attached
    /\ HostStep([dom EXCEPT !.cards[c] =
                   [NoCard EXCEPT !.attached = TRUE, !.content = content, !.shadow = shadow]])

\* the host page removes a card element; a reference the script holds to the
\* element (lastMenuCard) stays, and the element keeps its subtree
HostDetachCard(c) ==
    /\ dom.cards[c].attached
    /\ dom' = Settle([dom EXCEPT !.cards[c] = NoCard])
    /\ lastMenuCard' = IF lastMenuCard # <<>> /\ lastMenuCard[1].live /\ lastMenuCard[1].slot = c
                       THEN << [slot |-> c, live |-> FALSE, content |-> dom.cards[c].content] >>
                       ELSE lastMenuCard
    /\ detail' = NoDetail
    /\ assign' = <<>>
    /\ UNCHANGED <<path, lastPath, activeFilterTags, channelTagMap,
                   contentTypeFilters, ctree, ctype, nurl, nkey, nlook,
                   panel, storage, rlinks, rout, records, requests>>

\* the host page re-renders other content into a card element (virtual scrolling)
HostSwapContent(c, content) ==
    /\ dom.cards[c].attached
    /\ dom.cards[c].content # content
    /\ HostStep([dom EXCEPT !.cards[c].content = content])

\* the host page drops an injected control from a card
HostRemoveButton(c) ==
    /\ dom.cards[c].attached
    /\ dom.cards[c].buttons # <<>>
    /\ HostStep([dom EXCEPT !.cards[c].buttons = Tail(@)])

\* the host page renders a new pagination (continuation) element
HostRenderContinuation ==
    /\ dom.continuation # ""
    /\ HostStep([dom EXCEPT !.continuation = ""])

\* single-page-app navigation: the location changes, the page renders a header
Navigate(p, h) ==
    /\ p # path
    /\ IF isChannelPage(p) THEN h \in HeaderLayouts ELSE h = NoHeader
    /\ path' = p
    /\ dom' = Settle([dom EXCEPT !.header = h])
    /\ detail' = NoDetail
    /\ assign' = <<>>
    /\ UNCHANGED <<lastPath, activeFilterTags, channelTagMap, contentTypeFilters,
                   ctree, ctype, nurl, nkey, nlook,
                   panel, storage, rlinks, rout, records,
                   lastMenuCard, requests>>

\* The pipeline on the feed: the host page renders cards and navigates between
\* the feed and a watch page, the panel dispatches its events.
Next ==
    \/ MutationBatch
    \/ Popstate
    \/ \E d \in PanelDetails : FilterChange(d)
    \/ \E c \in Cards, n \in FeedContents, sh \in BOOLEAN : HostAttachCard(c, n, sh)
    \/ \E c \in Cards : HostDetachCard(c)
    \/ \E c \in Cards, n \in FeedContents : HostSwapContent(c, n)
    \/ \E c \in Cards : HostRemoveButton(c)
    \/ HostRenderContinuation
    \/ \E p \in {FEED, WATCH} : Navigate(p, NoHeader)

Spec == Init /\ [][Next]_vars

\* ------------------------------------------------------------------------
\* The panel's handlers.  A handler sets state, React renders, and the
\* effects run: the saves and the filter-change event, which the listener of
\* the content script handles before the step ends.
\* ------------------------------------------------------------------------
PanelStep(P1, changed) ==
    \E P \in {P1} :
    \E e \in {Effects(P, storage, changed)} :
    \E out \in {filterListener(path, S0, Settle(dom), e.detail)} :
        /\ panel' = e.panel
        /\ storage' = e.storage
        /\ activeFilterTags' = out.store.tags
        /\ channelTagMap' = out.store.map
        /\ contentTypeFilters' = out.store.types
        /\ dom' = out.dom
        /\ detail' = e.detail
        /\ assign' = <<>>
        /\ UNCHANGED <<path, lastPath, ctree, ctype, nurl, nkey, nlook, rlinks, rout, records,
                       lastMenuCard, requests>>

\* The first render of the App that init's ensureAppOnSubscriptions mounted:
\* the load effect calls loadData, the listener goes on window, and every
\* other effect runs on the initial state.
Mount ==
    /\ ~panel.mounted
    /\ PanelStep([panel EXCEPT !.mounted = TRUE, !.pending = <<loadData(storage)>>],
                 StateKeys)

\* loadData's promise resolves: the five setters, then the effects
LoadResolved ==
    /\ panel.pending # <<>>
    /\ LET data == panel.pending[1]
           P1 == [panel EXCEPT !.pending = <<>>,
                               !.tags = data.tags,
                               !.channelTags = data.channelTags,
                               !.contentTypes = data.contentTypes,
                               !.panelOpen = data.panelOpen,
                               !.activeTag = IF Len(data.activeFilters) > 0
                                             THEN <<data.activeFilters[1]>>
                                             ELSE <<>>]
       IN  PanelStep(P1, {"tags", "channelTags", "contentTypes"}
                         \cup (IF P1.panelOpen # panel.panelOpen THEN {"panelOpen"} ELSE {})
                         \cup (IF P1.activeTag # panel.activeTag THEN {"activeTag"} ELSE {}))

\* the New tag input: setNewTag
TypeNewTag(name) ==
    /\ panel.mounted /\ panel.panelOpen
    /\ name # panel.newTag
    /\ PanelStep([panel EXCEPT !.newTag = name], {})

\* the Add button
ClickAdd ==
    /\ panel.mounted /\ panel.panelOpen
    /\ LET P1 == createTag(panel)
       IN  PanelStep(P1, IF P1.tags # panel.tags THEN {"tags"} ELSE {})

\* the delete button of a tag
ClickDelete(id) ==
    /\ panel.mounted /\ panel.panelOpen
    /\ id \in TagIds(panel.tags)
    /\ PanelStep(deleteTag(panel, id), {"tags", "channelTags"})

\* the badge of a tag in the filter row
ClickFilter(id) ==
    /\ panel.mounted /\ panel.panelOpen
    /\ id \in TagIds(panel.tags)
    /\ PanelStep(toggleFilter(panel, id), {"activeTag"})

\* the badge of a content type
ClickContentType(key) ==
    /\ panel.mounted /\ panel.panelOpen
    /\ PanelStep(toggleContentType(panel, key), {"contentTypes"})

\* the badge of a tag in the assignment popover
ClickAssign(id) ==
    /\ panel.mounted /\ panel.assignOpen
    /\ id \in TagIds(panel.tags)
    /\ LET P1 == toggleAssign(panel, id)
       IN  PanelStep(P1, IF panel.assignChannel # <<>> THEN {"channelTags"} ELSE {})

\* the panel is closed to its badge, or opened from it
SetPanelOpen(b) ==
    /\ panel.mounted
    /\ panel.panelOpen # b
    /\ PanelStep([panel EXCEPT !.panelOpen = b], {"panelOpen"})

\* the popover closes (the pointer moved away, or a click outside)
ClosePopover ==
    /\ panel.mounted /\ panel.assignOpen
    /\ PanelStep([panel EXCEPT !.assignOpen = FALSE], {})

\* another script dispatches a ytx-open-assign event on window
ForeignAssign(d) ==
    /\ assign' = <<d>>
    /\ panel' = deliverAssign(panel, assign')
    /\ detail' = NoDetail
    /\ UNCHANGED <<path, lastPath, dom, activeFilterTags, channelTagMap,
                   contentTypeFilters, ctree, ctype, nurl, nkey, nlook,
                   storage, rlinks, rout, records,
                   lastMenuCard, requests>>

\* ------------------------------------------------------------------------
\* The tag controls and the assignment popover: the feed and a channel page
\* with the panel mounted.
\* ------------------------------------------------------------------------
AssignContents == {"A", "B", "A2"}

AssignLayouts ==
    { [nameEl |-> TRUE, nameText |-> "Alpha", container |-> TRUE],
      [nameEl |-> TRUE, nameText |-> "", container |-> FALSE] }

\* events without a channelUrl
ForeignDetails ==
    { dispatchAssign(NoUrl, "Alpha", pos.x, pos.y) : pos \in ClickPoints }

NextAssign ==
    \/ Mount
    \/ LoadResolved
    \/ MutationBatch
    \/ \E c \in Cards : ClickCardButton(c)
    \/ ClickHeaderButton
    \/ ClosePopover
    \/ \E d \in ForeignDetails : ForeignAssign(d)
    \/ \E p \in {FEED, CHANNEL_A}, h \in AssignLayouts \cup {NoHeader} : Navigate(p, h)
    \/ \E c \in Cards, n \in AssignContents : HostAttachCard(c, n, FALSE)
    \/ \E c \in Cards, n \in AssignContents : HostSwapContent(c, n)

SpecAssign == Init /\ [][NextAssign]_vars

\* ------------------------------------------------------------------------
\* The panel on the feed: the user creates, deletes, assigns and selects
\* tags, with and without a storage backend.
\* ------------------------------------------------------------------------
\* what the panel of an earlier visit left in storage
StoredArea ==
    Area(<< << Tag(<<"racing">>, <<"Racing">>, "#7a5cff") >> >>,
         << << Entry(KEY_A, << <<"racing">> >>) >> >>,
         << [DEFAULT_CONTENT_TYPES EXCEPT !["shorts"] = FALSE] >>,
         << FALSE >>,
         << << <<"racing">> >> >>)

PanelStorages == { <<>>, << EmptyArea >>, << StoredArea >> }

\* what the user types into the New tag input: blank, "Racing", "racing  2"
NewTagInputs ==
    { << " ", " " >>, << "Racing" >>, << " ", "racing", " ", " ", "2" >> }

InitPanel ==
    /\ path = FEED
    /\ lastPath = FEED
    /\ dom = InitDom
    /\ activeFilterTags = {}
    /\ channelTagMap = <<>>
    /\ contentTypeFilters = DEFAULT_CONTENT_TYPES
    /\ detail = NoDetail
    /\ assign = <<>>
    /\ ctree = <<>>
    /\ ctype = "unset"
    /\ nurl = NoUrl
    /\ nkey = <<>>
    /\ nlook = <<>>
    /\ panel = App0
    /\ storage \in PanelStorages
    /\ rlinks = <<>>
    /\ rout = <<>>
    /\ records = FALSE
    /\ lastMenuCard = <<>>
    /\ requests = <<>>

NextPanel ==
    \/ Mount
    \/ LoadResolved
    \/ \E id \in TagIds(panel.tags) : ClickDelete(id)
    \/ \E id \in TagIds(panel.tags) : ClickFilter(id)
    \/ ClickContentType("shorts")
    \/ \E id \in TagIds(panel.tags) : ClickAssign(id)
    \/ \E b \in BOOLEAN : SetPanelOpen(b)
    \/ ClosePopover
    \/ \E c \in Cards : ClickCardButton(c)
    \/ MutationBatch
    \/ \E c \in Cards : HostAttachCard(c, "A", FALSE)

SpecPanel == InitPanel /\ [][NextPanel]_vars

\* The tag list: the user creates and deletes tags, at most MaxTags at a time,
\* and selects filters, on a page that renders no cards.
NextTags ==
    \/ Mount
    \/ LoadResolved
    \/ \E name \in NewTagInputs : TypeNewTag(name)
    \/ (Len(panel.tags) < MaxTags /\ ClickAdd)
    \/ \E id \in TagIds(panel.tags) : ClickDelete(id)
    \/ \E id \in TagIds(panel.tags) : ClickFilter(id)
    \/ ClickContentType("shorts")
    \/ \E b \in BOOLEAN : SetPanelOpen(b)

SpecTags == InitPanel /\ [][NextTags]_vars

\* ------------------------------------------------------------------------
\* The observers after the host page's last mutation.  The initial states
\* are page states: a page the host rendered, possibly handled by a pass,
\* then changed by the host once more; records of that change are queued.
\* A pass queues records itself when it changes a child list under
\* document.body: style and attribute writes queue none, and a shadow tree
\* is not in the subtree the observers watch.
\* ------------------------------------------------------------------------
ChildListChanged(D1, D2) ==
    \/ D2.removed
    \/ \E c \in Cards :
         /\ D2.cards[c].attached
         /\ ~D2.cards[c].shadow
         /\ \E i \in DOMAIN D2.cards[c].buttons : D2.cards[c].buttons[i].fresh
    \/ \E i \in DOMAIN D2.headerBtns : D2.headerBtns[i].fresh
    \/ \E i \in DOMAIN D2.popups : \E j \in DOMAIN D2.popups[i] : D2.popups[i][j].fresh
    \/ D1.warning = "absent" /\ D2.warning # "absent"

ConvergePaths == {FEED, CHANNEL_A, WATCH}

ConvergeStores ==
    { Store(a, m, [k \in TypeKeys |-> k \in on]) :
        a \in {{}, {"t1"}}, m \in PanelMaps, on \in {TypeKeys, {}} }

HeadersOf(p) == IF isChannelPage(p) THEN AssignLayouts ELSE {NoHeader}

\* the page the host renders at p: a header, and one card or none
Page(p, h, n, sh) ==
    [InitDom EXCEPT
       !.header = h,
       !.cards = [c \in Cards |->
                    IF n = "none" THEN NoCard
                    ELSE [NoCard EXCEPT !.attached = TRUE, !.content = n,
                                        !.shadow = sh]]]

\* the changes the host makes to a page: none, other content in the cards,
\* the first control of each card dropped
HostChanges(D) ==
    {D}
    \cup { [D EXCEPT !.cards = [c \in Cards |->
                                  IF D.cards[c].attached
                                  THEN [D.cards[c] EXCEPT !.content = n]
                                  ELSE D.cards[c]]] : n \in ContentNames }
    \cup { [D EXCEPT !.cards = [c \in Cards |->
                                  IF D.cards[c].buttons # <<>>
                                  THEN [D.cards[c] EXCEPT !.buttons = Tail(@)]
                                  ELSE D.cards[c]]] }

InitConverge ==
    /\ \E p0 \in ConvergePaths, n \in ContentNames \cup {"none"}, sh \in BOOLEAN,
          handled \in BOOLEAN, S \in ConvergeStores :
         \E h0 \in HeadersOf(p0) :
           LET D0 == Page(p0, h0, n, sh)
               D1 == IF handled THEN handleBatch(p0, p0, S, D0) ELSE D0
           IN  /\ activeFilterTags = S.tags
               /\ channelTagMap = S.map
               /\ contentTypeFilters = S.types
               /\ lastPath = p0
               /\ path \in ConvergePaths
               /\ \E D2 \in HostChanges(Settle(D1)), h \in HeadersOf(path) :
                    dom = [D2 EXCEPT !.header = IF path = p0 THEN h0 ELSE h]
    /\ detail = NoDetail
    /\ assign = <<>>
    /\ ctree = <<>>
    /\ ctype = "unset"
    /\ nurl = NoUrl
    /\ nkey = <<>>
    /\ nlook = <<>>
    /\ panel = App0
    /\ storage = <<>>
    /\ rlinks = <<>>
    /\ rout = <<>>
    /\ records = TRUE
    /\ lastMenuCard = <<>>
    /\ requests = <<>>

\* the observers run on the queued records: scanAndInject, then checkPath
ObserverPass ==
    /\ records
    /\ dom' = handleBatch(path, lastPath, S0, Settle(dom))
    /\ lastPath' = path
    /\ records' = ChildListChanged(Settle(dom), dom')
    /\ detail' = NoDetail
    /\ assign' = <<>>
    /\ UNCHANGED <<path, activeFilterTags, channelTagMap, contentTypeFilters,
                   ctree, ctype, nurl, nkey, nlook, panel, storage, rlinks, rout,
                   lastMenuCard, requests>>

NextConverge == ObserverPass

\* ENABLED <<ObserverPass>>_vars, written out: records are queued and the
\* pass changes the state
PassEnabled ==
    /\ records
    /\ LET D2 == handleBatch(path, lastPath, S0, Settle(dom))
       IN  ~ /\ D2 = dom
             /\ lastPath = path
             /\ ChildListChanged(Settle(dom), D2) = records
             /\ detail = NoDetail
             /\ assign = <<>>

\* Weak fairness of ObserverPass, WF_vars(ObserverPass), with its enabling
\* condition written out: the browser delivers queued records to the
\* observers
PassIsFair == []<>(~PassEnabled) \/ []<><<ObserverPass>>_vars

SpecConverge == InitConverge /\ [][NextConverge]_vars /\ PassIsFair

\* lastMenuCard is <<>> (null) or a reference to a card element: the element
\* in slot `slot` of the document while live, else an element the host page
\* has removed, with the content it had then
CardRef(c) == << [slot |-> c, live |-> TRUE, content |-> "none"] >>

\* the anchors of the element lastMenuCard refers to
refLinks(L, D) ==
    IF L[1].live THEN Content(D.cards[L[1].slot].content).links
    ELSE Content(L[1].content).links

\* the document click listener of attachMenuTracking, for a click inside the
\* options menu of card c: for a card inside the shadow root of ytd-app the
\* listener sees the shadow host as the event target, which is inside no
\* ytd-menu-renderer
menuTracking(L, card, c) == IF card.shadow THEN L ELSE CardRef(c)

\* a click inside the options menu of a card
MenuClick(c) ==
    /\ dom.cards[c].attached
    /\ dom.cards[c].display = ""
    /\ lastMenuCard' = menuTracking(lastMenuCard, dom.cards[c], c)
    /\ detail' = NoDetail
    /\ assign' = <<>>
    /\ UNCHANGED <<path, lastPath, dom, activeFilterTags, channelTagMap,
                   contentTypeFilters, ctree, ctype, nurl, nkey, nlook,
                   panel, storage, rlinks, rout, records, requests>>

\* a click anywhere else: the target is inside no ytd-menu-renderer, or the
\* menu belongs to no card
OtherClick ==
    /\ detail' = NoDetail
    /\ assign' = <<>>
    /\ UNCHANGED <<path, lastPath, dom, activeFilterTags, channelTagMap,
                   contentTypeFilters, ctree, ctype, nurl, nkey, nlook,
                   panel, storage, rlinks, rout, records, lastMenuCard, requests>>

\* the click listener of an injected menu entry: the events it dispatches
menuItemClick(L, D, pos) ==
    IF L = <<>> THEN <<>>
    ELSE LET link == findChannelLink(refLinks(L, D))
         IN  IF link = <<>> THEN <<>>
             ELSE << dispatchAssign(Href(link[1].attr),
                                    IF link[1].text # "" THEN link[1].text ELSE "Channel",
                                    pos.x, pos.y) >>

\* the user activates the injected entry of a popup; the panel handles the event
ClickMenuItem(i) ==
    /\ i \in DOMAIN dom.popups
    /\ dom.popups[i] # <<>>
    /\ \E pos \in ClickPoints : assign' = menuItemClick(lastMenuCard, dom, pos)
    /\ panel' = deliverAssign(panel, assign')
    /\ detail' = NoDetail
    /\ UNCHANGED <<path, lastPath, dom, activeFilterTags, channelTagMap,
                   contentTypeFilters, ctree, ctype, nurl, nkey, nlook,
                   storage, rlinks, rout, records, lastMenuCard, requests>>

\* the host page opens an options popup: a listbox without injected entries
HostOpenPopup ==
    /\ Len(dom.popups) < MaxPopups
    /\ HostStep([dom EXCEPT !.popups = Append(@, <<>>)])

\* the host page removes the listbox of a popup
HostClosePopup(i) ==
    /\ i \in DOMAIN dom.popups
    /\ HostStep([dom EXCEPT !.popups = SubSeq(@, 1, i - 1) \o SubSeq(@, i + 1, Len(@))])

\* the host page re-renders a listbox: the injected entry is gone
HostRemoveMenuItem(i) ==
    /\ i \in DOMAIN dom.popups
    /\ dom.popups[i] # <<>>
    /\ HostStep([dom EXCEPT !.popups[i] = Tail(@)])

\* ------------------------------------------------------------------------
\* The options menu: the host page opens and closes popups and renders cards
\* in the document and in the app's shadow root; the user clicks inside the
\* menus of the cards and activates the injected entries.
\* ------------------------------------------------------------------------
MenuContents == {"A", "B", "N"}

NextMenu ==
    \/ MutationBatch
    \/ HostOpenPopup
    \/ \E i \in 1..MaxPopups : HostClosePopup(i)
    \/ \E i \in 1..MaxPopups : HostRemoveMenuItem(i)
    \/ \E c \in Cards : MenuClick(c)
    \/ OtherClick
    \/ \E i \in 1..MaxPopups : ClickMenuItem(i)
    \/ \E c \in Cards, n \in MenuContents, sh \in BOOLEAN : HostAttachCard(c, n, sh)
    \/ \E c \in Cards : HostDetachCard(c)
    \/ \E c \in Cards, n \in MenuContents : HostSwapContent(c, n)
    \/ \E p \in {FEED, WATCH} : Navigate(p, NoHeader)

SpecMenu == Init /\ [][NextMenu]_vars

\* ------------------------------------------------------------------------
\* Shelves: the host page renders shelves of shorts, of videos and of both
\* on the feed; the panel toggles the shorts content type.
\* ------------------------------------------------------------------------
ShelfItems == { <<"short">>, <<"short", "short">>, <<"short", "video">>, <<"video">> }

ShelfDetails ==
    { Detail(TRUE, TRUE, {}, TRUE, <<>>, TRUE, on, TypeKeys \ on) :
        on \in {TypeKeys, TypeKeys \ {"shorts"}} }

\* the host page renders a shelf
HostRenderShelf(items) ==
    /\ Len(dom.shelves) < MaxShelves
    /\ HostStep([dom EXCEPT !.shelves = Append(@, [items |-> items, display |-> ""])])

\* the host page removes the first shelf
HostRemoveShelf ==
    /\ dom.shelves # <<>>
    /\ HostStep([dom EXCEPT !.shelves = Tail(@)])

NextShelf ==
    \/ MutationBatch
    \/ \E d \in ShelfDetails : FilterChange(d)
    \/ \E items \in ShelfItems : HostRenderShelf(items)
    \/ HostRemoveShelf
    \/ \E p \in {FEED, WATCH} : Navigate(p, NoHeader)

SpecShelf == Init /\ [][NextShelf]_vars

\* ------------------------------------------------------------------------
\* Every handler of the content script on the feed and on a channel page,
\* with cards in the document and in the app's shadow root.
\* ------------------------------------------------------------------------
NextFrame ==
    \/ MutationBatch
    \/ Popstate
    \/ \E d \in PanelDetails : FilterChange(d)
    \/ \E c \in Cards : ClickCardButton(c)
    \/ ClickHeaderButton
    \/ \E c \in Cards : MenuClick(c)
    \/ \E p \in {FEED, CHANNEL_A}, h \in AssignLayouts \cup {NoHeader} : Navigate(p, h)
    \/ \E c \in Cards, n \in {"A", "N"}, sh \in BOOLEAN : HostAttachCard(c, n, sh)
    \/ \E c \in Cards : HostDetachCard(c)

SpecFrame == Init /\ [][NextFrame]_vars

\* ------------------------------------------------------------------------
\* The Channel Link Resolver on every card of at most MaxLinks anchors taken
\* from LinkPool.
\* ------------------------------------------------------------------------
LinkPool ==
    { Link(Rel(<<"@a">>, FALSE), "", TRUE, {}, FALSE),
      Link(Rel(<<"@a">>, FALSE), "Alpha", FALSE, {"ytd-channel-name"}, FALSE),
      Link(Rel(<<"@b">>, FALSE), "Beta", FALSE, {"#byline-container"}, FALSE),
      Link(Rel(<<"@b">>, FALSE), "Beta", FALSE, {"ytd-channel-name"}, TRUE),
      Link(Rel(<<"c", "gamma">>, FALSE), "Gamma", FALSE, {"#metadata-line"}, FALSE),
      Link(Rel(<<"channel", "UCx">>, FALSE), "Chi", FALSE, {}, FALSE),
      Link(Rel(<<"channel", "UCx">>, FALSE), "Menu", FALSE, {}, TRUE),
      Link(Rel(<<"watch">>, FALSE), "Title", TRUE, {}, FALSE),
      Link(Rel(<<"watch">>, FALSE), "Title", FALSE, {"ytd-channel-name"}, FALSE) }

LinkLists ==
    UNION { [1..n -> LinkPool] : n \in 0..MaxLinks }

InitResolve ==
    /\ path = FEED
    /\ lastPath = FEED
    /\ dom = InitDom
    /\ activeFilterTags = {}
    /\ channelTagMap = <<>>
    /\ contentTypeFilters = DEFAULT_CONTENT_TYPES
    /\ detail = NoDetail
    /\ assign = <<>>
    /\ ctree = <<>>
    /\ ctype = "unset"
    /\ nurl = NoUrl
    /\ nkey = <<>>
    /\ nlook = <<>>
    /\ panel = App0
    /\ storage = <<>>
    /\ rlinks \in LinkLists
    /\ rout = <<>>
    /\ records = FALSE
    /\ lastMenuCard = <<>>
    /\ requests = <<>>

\* a call of findChannelLink on the card
Resolve ==
    /\ rout = <<>>
    /\ rout' = << findChannelLink(rlinks) >>
    /\ UNCHANGED <<path, lastPath, dom, activeFilterTags, channelTagMap,
                   contentTypeFilters, detail, assign, ctree, ctype, nurl, nkey,
                   nlook, panel, storage, rlinks, records, lastMenuCard, requests>>

NextResolve == Resolve

SpecResolve == InitResolve /\ [][NextResolve]_vars

\* ------------------------------------------------------------------------
\* The Filter State Store against every event of the declared event type.
\* ------------------------------------------------------------------------
StoreTagOpts ==
    {[has |-> FALSE, v |-> {}]} \cup {[has |-> TRUE, v |-> a] : a \in {{}, {"t1"}}}

StoreMapOpts ==
    {[has |-> FALSE, v |-> <<>>]}
    \cup {[has |-> TRUE, v |-> m] : m \in {<<>>, << Entry(KEY_A, <<"t1">>) >>}}

\* the contentTypes objects that mention at most MaxMentioned keys
StoreTypeOpts ==
    {[has |-> FALSE, on |-> {}, off |-> {}]}
    \cup {[has |-> TRUE, on |-> q[1], off |-> q[2] \ q[1]] :
            q \in {x \in (SUBSET TypeKeys) \X (SUBSET TypeKeys) :
                     x[1] \subseteq x[2] /\ Cardinality(x[2]) <= MaxMentioned}}

AllDetails ==
    {NoDetail}
    \cup {Detail(TRUE, a.has, a.v, m.has, m.v, y.has, y.on, y.off) :
            a \in StoreTagOpts, m \in StoreMapOpts, y \in StoreTypeOpts}

NextStore ==
    \/ \E d \in AllDetails : FilterChange(d)
    \/ MutationBatch

SpecStore == Init /\ [][NextStore]_vars

\* ------------------------------------------------------------------------
\* The Card Classifier on every card subtree of NumNodes elements.
\* ------------------------------------------------------------------------
InitClassify ==
    /\ path = FEED
    /\ lastPath = FEED
    /\ dom = InitDom
    /\ activeFilterTags = {}
    /\ channelTagMap = <<>>
    /\ contentTypeFilters = DEFAULT_CONTENT_TYPES
    /\ detail = NoDetail
    /\ assign = <<>>
    /\ ctree \in Trees
    /\ ctype = "unset"
    /\ nurl = NoUrl
    /\ nkey = <<>>
    /\ nlook = <<>>
    /\ panel = App0
    /\ storage = <<>>
    /\ rlinks = <<>>
    /\ rout = <<>>
    /\ records = FALSE
    /\ lastMenuCard = <<>>
    /\ requests = <<>>

Classify ==
    /\ ctype = "unset"
    /\ ctype' = getContentType(ctree)
    /\ UNCHANGED <<path, lastPath, dom, activeFilterTags, channelTagMap,
                   contentTypeFilters, detail, assign, ctree, nurl, nkey, nlook,
                   panel, storage, rlinks, rout, records,
                   lastMenuCard, requests>>

NextClassify == Classify

SpecClassify == InitClassify /\ [][NextClassify]_vars

\* ------------------------------------------------------------------------
\* The channel header: the host page navigates between the feed, two channel
\* pages and a watch page and renders channel headers of every layout.
\* ------------------------------------------------------------------------
HeaderDetails ==
    { Detail(TRUE, TRUE, {}, TRUE, m, TRUE, TypeKeys, {}) :
        m \in {<<>>, << Entry(KEY_A_RAW, <<"t1", "t2">>) >>} }

\* the host page renders, or re-renders, the channel header
HostRenderHeader(h) ==
    /\ isChannelPage(path)
    /\ h # dom.header
    /\ HostStep([dom EXCEPT !.header = h])

\* the host page drops the injected header control
HostRemoveHeaderButton ==
    /\ dom.headerBtns # <<>>
    /\ HostStep([dom EXCEPT !.headerBtns = Tail(@)])

NextHeader ==
    \/ MutationBatch
    \/ Popstate
    \/ \E d \in HeaderDetails : FilterChange(d)
    \/ ClickHeaderButton
    \/ \E p \in Paths, h \in HeaderLayouts \cup {NoHeader} : Navigate(p, h)
    \/ \E h \in HeaderLayouts : HostRenderHeader(h)
    \/ HostRemoveHeaderButton
    \/ \E c \in Cards : HostAttachCard(c, "A", FALSE)
    \/ \E c \in Cards : HostDetachCard(c)

SpecHeader == Init /\ [][NextHeader]_vars

\* ------------------------------------------------------------------------
\* Resolution misses: a feed of NumCards + 1 cards with and without a channel
\* link and a thumbnail, and channel pages with headers of every layout.
\* ------------------------------------------------------------------------
MissCards == 1..(NumCards + 1)

MissContents == {"A", "A2", "N"}

MissDetails ==
    { Detail(TRUE, TRUE, a, TRUE, << Entry(KEY_A_RAW, <<"t1">>) >>, TRUE, TypeKeys, {}) :
        a \in {{}, {"t1"}} }

InitMiss ==
    /\ path = FEED
    /\ lastPath = FEED
    /\ dom = [InitDom EXCEPT !.cards = [c \in MissCards |-> NoCard]]
    /\ activeFilterTags = {}
    /\ channelTagMap = <<>>
    /\ contentTypeFilters = DEFAULT_CONTENT_TYPES
    /\ detail = NoDetail
    /\ assign = <<>>
    /\ ctree = <<>>
    /\ ctype = "unset"
    /\ nurl = NoUrl
    /\ nkey = <<>>
    /\ nlook = <<>>
    /\ panel = App0
    /\ storage = <<>>
    /\ rlinks = <<>>
    /\ rout = <<>>
    /\ records = FALSE
    /\ lastMenuCard = <<>>
    /\ requests = <<>>

NextMiss ==
    \/ MutationBatch
    \/ \E d \in MissDetails : FilterChange(d)
    \/ \E c \in MissCards, n \in MissContents : HostAttachCard(c, n, FALSE)
    \/ \E c \in MissCards : HostDetachCard(c)
    \/ \E p \in {FEED, CHANNEL_A}, h \in HeaderLayouts \cup {NoHeader} : Navigate(p, h)
    \/ \E h \in HeaderLayouts : HostRenderHeader(h)

SpecMiss == InitMiss /\ [][NextMiss]_vars

\* ------------------------------------------------------------------------
\* The URL normalizer and the tag lookups on every input string of NormInputs.
\* ------------------------------------------------------------------------
M_ORIGIN == "https://m.youtube.com"

NormSegs ==
    { <<>>, <<"@a">>, <<"@A">>, <<"@a", "">>, <<"channel", "UCx">>, <<"channel", "ucx">> }

\* relative and absolute strings, with and without trailing slashes
NormInputs ==
    { u \in { Url(o, sg, sl) : o \in {"", YT_ORIGIN, M_ORIGIN}, sg \in NormSegs, sl \in BOOLEAN } :
        u.slash \/ u.segs = <<>> \/ u.segs[Len(u.segs)] # "" }

NormMaps ==
    { <<>>,
      << Entry(Rel(<<"@a">>, FALSE), <<"t1">>) >>,
      << Entry(KEY_A_RAW, <<"t1", "t2">>), Entry(Rel(<<"@A">>, TRUE), <<"t2">>) >> }

InitNormalize ==
    /\ path = FEED
    /\ lastPath = FEED
    /\ dom = InitDom
    /\ activeFilterTags \in {{}, {"t1"}}
    /\ channelTagMap \in NormMaps
    /\ contentTypeFilters = DEFAULT_CONTENT_TYPES
    /\ detail = NoDetail
    /\ assign = <<>>
    /\ ctree = <<>>
    /\ ctype = "unset"
    /\ nurl \in NormInputs
    /\ nkey = <<>>
    /\ nlook = <<>>
    /\ panel = App0
    /\ storage = <<>>
    /\ rlinks = <<>>
    /\ rout = <<>>
    /\ records = FALSE
    /\ lastMenuCard = <<>>
    /\ requests = <<>>

\* a call of normalizeChannelUrl
Normalize ==
    /\ nkey = <<>>
    /\ nkey' = << normalizeChannelUrl(nurl) >>
    /\ UNCHANGED <<path, lastPath, dom, activeFilterTags, channelTagMap,
                   contentTypeFilters, detail, assign, ctree, ctype, nurl, nlook,
                   panel, storage, rlinks, rout, records,
                   lastMenuCard, requests>>

\* the two tag lookups of the content script on the string
Lookup ==
    /\ nlook = <<>>
    /\ nlook' = << [count |-> getTagCountForChannel(S0, nurl),
                    match |-> matchesTagFilter(S0, <<nurl>>)] >>
    /\ UNCHANGED <<path, lastPath, dom, activeFilterTags, channelTagMap,
                   contentTypeFilters, detail, assign, ctree, ctype, nurl, nkey,
                   panel, storage, rlinks, rout, records,
                   lastMenuCard, requests>>

NextNormalize == Normalize \/ Lookup

SpecNormalize == InitNormalize /\ [][NextNormalize]_vars

TypeOK ==
    /\ path \in Paths
    /\ lastPath \in Paths
    /\ activeFilterTags \subseteq Tags


\* ========================================================================
\* Properties
\* ========================================================================
OnFeed == isSubscriptionsFeed(path)

\* the step ran the pipeline: an injection pass or the filter-change listener
PipelineStep == MutationBatch \/ detail'.present

\* the link the resolver finds in the card now (<<>> for none)
ResolvedLink(card) == findChannelLink(Content(card.content).links)

\* the tag list the map assigns to a channel URL: the entry under the
\* normalized key, else the entry under the URL as written, else the first
\* entry whose key normalizes to the same key, else none
AssignedTags(map, url) ==
    LET n == normalizeChannelUrl(url)
        exact == {i \in DOMAIN map : map[i].key = n}
        raw == {i \in DOMAIN map : map[i].key = url}
        norm == {i \in DOMAIN map : normalizeChannelUrl(map[i].key) = n}
        pick == IF exact # {} THEN exact ELSE IF raw # {} THEN raw ELSE norm
    IN  IF pick = {} THEN {} ELSE Range(map[Min(pick)].tags)

TagCount(map, url) ==
    LET n == normalizeChannelUrl(url)
        exact == {i \in DOMAIN map : map[i].key = n}
        raw == {i \in DOMAIN map : map[i].key = url}
        norm == {i \in DOMAIN map : normalizeChannelUrl(map[i].key) = n}
        pick == IF exact # {} THEN exact ELSE IF raw # {} THEN raw ELSE norm
    IN  IF pick = {} THEN 0 ELSE Len(map[Min(pick)].tags)

ToggleOf(type) == IF type = "video" THEN "videos" ELSE type

TypeMatch(types, card) == types[ToggleOf(getContentType(Content(card.content).tree))]

TagMatch(tags, map, card) ==
    \/ tags = {}
    \/ /\ card.urlMark # <<>>
       /\ AssignedTags(map, card.urlMark[1]) \cap tags # {}

\* C1: every attached card carries at most one channel-URL annotation and has
\* at most one injected tag control in its subtree, in every reachable state.
C1_AtMostOneControl ==
    \A c \in Cards :
        dom.cards[c].attached =>
            /\ Len(dom.cards[c].urlMark) <= 1
            /\ Len(dom.cards[c].buttons) <= 1

\* a card was injected, the host page swapped its content to another channel,
\* and a later pass ran on it: it still has one annotation and one control
C1_Witness ==
    \E c \in Cards :
        /\ dom.cards[c].attached
        /\ Len(dom.cards[c].buttons) = 1
        /\ Len(dom.cards[c].urlMark) = 1
        /\ dom.cards[c].buttons[1].channelUrl # dom.cards[c].urlMark[1]
        /\ ResolvedLink(dom.cards[c]) # <<>>
        /\ dom.cards[c].urlMark[1] = Href(ResolvedLink(dom.cards[c])[1].attr)

\* C2: on the feed, an injection pass that follows an injection pass with
\* nothing in between changes nothing: it creates no control and removes
\* none, and every card with a resolvable channel link has exactly one
\* control with one click listener.
C2_SecondPassNoOp ==
    OnFeed =>
        LET D1 == Settle(scanAndInject(path, S0, Settle(dom)))
            D2 == scanAndInject(path, S0, D1)
        IN  /\ D2 = D1
            /\ \A c \in Cards :
                 (D2.cards[c].attached /\ ResolvedLink(D2.cards[c]) # <<>>) =>
                     /\ Len(D2.cards[c].buttons) = 1
                     /\ D2.cards[c].buttons[1].click = 1
                     /\ ~D2.cards[c].buttons[1].fresh

\* a feed card that resolves to a channel carries the control an earlier
\* injection pass created for that channel, so a further pass meets the card
\* already injected and unchanged
C2_Witness ==
    /\ OnFeed
    /\ \E c \in Cards :
         /\ dom.cards[c].attached
         /\ dom.cards[c].cardMark
         /\ Len(dom.cards[c].buttons) = 1
         /\ ~dom.cards[c].buttons[1].fresh
         /\ ResolvedLink(dom.cards[c]) # <<>>
         /\ dom.cards[c].buttons[1].channelUrl = Href(ResolvedLink(dom.cards[c])[1].attr)

\* the controls of the attached cards with a resolvable link carry the URL
\* the card resolves to
ControlsCurrent(D) ==
    \A c \in Cards :
        (D.cards[c].attached /\ ResolvedLink(D.cards[c]) # <<>>) =>
            /\ Len(D.cards[c].buttons) = 1
            /\ D.cards[c].buttons[1].channelUrl = Href(ResolvedLink(D.cards[c])[1].attr)

\* C3: after an injection pass on the feed, the control of every card with a
\* resolvable channel link carries (and on click emits) the URL the card
\* resolves to now, also when the host page swapped the card's content.
C3_StaleControlReplaced == [][(MutationBatch /\ OnFeed) => ControlsCurrent(dom')]_vars

VisibilityOK(D, tags, map, types) ==
    \A c \in Cards :
        D.cards[c].attached =>
            (D.cards[c].display = "" <=>
                (TagMatch(tags, map, D.cards[c]) /\ TypeMatch(types, D.cards[c])))

\* C4: after every applyFilter run on the feed (injection pass or
\* filter-change event), every card is visible iff tag-match and
\* content-type-match hold, tag-match read from the card's annotation.
C4_VisibleIffMatch ==
    [][(PipelineStep /\ OnFeed) =>
         VisibilityOK(dom', activeFilterTags', channelTagMap', contentTypeFilters')]_vars

\* a filter-change event with an active tag has left one card of a tagged
\* channel visible
C4_Witness ==
    /\ OnFeed
    /\ detail.present
    /\ activeFilterTags # {}
    /\ \E c \in Cards :
         /\ dom.cards[c].attached
         /\ dom.cards[c].display = ""
         /\ dom.cards[c].urlMark # <<>>

UnresolvedOK(D, tags, types) ==
    \A c \in Cards :
        (D.cards[c].attached /\ ResolvedLink(D.cards[c]) = <<>>) =>
            IF tags # {}
            THEN D.cards[c].display = "none"
            ELSE (D.cards[c].display = "" <=> TypeMatch(types, D.cards[c]))

\* C5: after an injection pass of the pipeline on the feed, a card in which
\* the resolver now finds no channel link is hidden when a tag filter is
\* active, and follows its content-type toggle alone when none is.
C5_UnresolvedHidden ==
    [][(MutationBatch /\ OnFeed) =>
         UnresolvedOK(dom', activeFilterTags', contentTypeFilters')]_vars

\* the contentTypes object of an event merged over the defaults
MergedTypes(d) ==
    [k \in TypeKeys |-> IF k \in d.on THEN TRUE ELSE IF k \in d.off THEN FALSE ELSE TRUE]

C7_PartialTypesOverDefaults ==
    (detail.present /\ detail.hasTypes) =>
        \A k \in TypeKeys :
            contentTypeFilters[k] = (IF k \in detail.on THEN TRUE
                                     ELSE IF k \in detail.off THEN FALSE
                                     ELSE TRUE)

\* an event that mentions only one type, and switches it off, was handled
C7_Witness ==
    /\ detail.present
    /\ detail.hasTypes
    /\ detail.on = {}
    /\ detail.off = {"live"}
    /\ contentTypeFilters = [k \in TypeKeys |-> k # "live"]

\* the label for a tag count
LabelFor(n) == IF n = 0 THEN "Tag" ELSE ToString(n) \o " Tag"

LabelsCurrent(D, map) ==
    /\ \A c \in Cards :
         D.cards[c].attached =>
             \A i \in DOMAIN D.cards[c].buttons :
                 D.cards[c].buttons[i].text =
                     LabelFor(TagCount(map, D.cards[c].buttons[i].channelUrl))
    /\ \A i \in DOMAIN D.headerBtns :
         D.headerBtns[i].text = LabelFor(TagCount(map, D.headerBtns[i].channelUrl))

\* C8: after every filter-change event and every injection pass, every
\* injected control shows the label of the tag count its channel has in the
\* current channelTagMap.
C8_LabelsFollowMap == [][PipelineStep => LabelsCurrent(dom', channelTagMap')]_vars

\* ------------------------------------------------------------------------
\* Classifier properties
\* ------------------------------------------------------------------------
RECURSIVE Searchable(_, _)
\* the element lies below the card, in the light tree or in a shadow tree
\* hosted by a descendant of the card (at any depth)
Searchable(t, n) == IF t[n].parent = 0 THEN ~t[n].sh ELSE Searchable(t, t[n].parent)

RECURSIVE InLightTree(_, _)
\* the element lies in the card's light tree
InLightTree(t, n) == ~t[n].sh /\ (t[n].parent = 0 \/ InLightTree(t, t[n].parent))

RECURSIVE ShadowDepth(_, _)
\* the number of shadow roots between the card and the element
ShadowDepth(t, n) ==
    (IF t[n].sh THEN 1 ELSE 0) + (IF t[n].parent = 0 THEN 0 ELSE ShadowDepth(t, t[n].parent))

Present(t, marks) == \E n \in DOMAIN t : Searchable(t, n) /\ t[n].mark \in marks

ShortsMarks == {"shortsLink", "shortsOverlay"}
LiveMarks == {"liveOverlay", "liveBadge"}
UpcomingMarks == {"upcomingOverlay"}

\* C9: the classifier returns the first match in the priority shorts > live >
\* upcoming > video over the markers of the card.
C9_PriorityOrder ==
    ctype # "unset" =>
        ctype = (IF Present(ctree, ShortsMarks) THEN "shorts"
                 ELSE IF Present(ctree, LiveMarks) THEN "live"
                 ELSE IF Present(ctree, UpcomingMarks) THEN "upcoming"
                 ELSE "video")

\* a card with a shorts marker, a live marker and an upcoming marker was
\* classified as shorts
C9_Witness ==
    /\ ctype = "shorts"
    /\ Present(ctree, LiveMarks)
    /\ Present(ctree, UpcomingMarks)

RECURSIVE WalkCalls(_, _)
\* the number of walk invocations of one queryInCard that finds nothing
WalkCalls(t, root) ==
    LET hosts == {c \in QueryAll(t, root) : HasShadowRoot(t, c)}
        RECURSIVE Sum(_)
        Sum(H) == IF H = {} THEN 0
                  ELSE LET c == Min(H) IN WalkCalls(t, <<c, TRUE>>) + Sum(H \ {c})
    IN  1 + Sum(hosts)

\* C10: the marker search finds a marker exactly when an element below the
\* card carries it, in the light tree or in a shadow tree hosted by a
\* descendant at any nesting depth, and returns an element that carries it;
\* the search makes at most one walk per shadow root and the card.
C10_SearchCrossesShadowRoots ==
    /\ \A sel \in Markers :
         LET found == queryInCard(ctree, sel)
         IN  /\ (found # NullEl) <=> Present(ctree, {sel})
             /\ found # NullEl => (ctree[found].mark = sel /\ Searchable(ctree, found))
    /\ WalkCalls(ctree, <<0, FALSE>>) <= 1 + Len(ctree)
    /\ ctype # "unset" =>
         ((\E n \in DOMAIN ctree :
              Searchable(ctree, n) /\ ctree[n].mark \in ShortsMarks) => ctype = "shorts")

\* the shorts marker is only inside a shadow root nested in a shadow root,
\* the live badge is in the light tree, and the card was classified as shorts
C10_Witness ==
    /\ ctype = "shorts"
    /\ \E n \in DOMAIN ctree : ctree[n].mark \in ShortsMarks
    /\ \A n \in DOMAIN ctree :
         ctree[n].mark \in ShortsMarks => (Searchable(ctree, n) /\ ShadowDepth(ctree, n) = 2)
    /\ \E n \in DOMAIN ctree : ctree[n].mark = "liveBadge" /\ InLightTree(ctree, n)

\* ------------------------------------------------------------------------
\* Normalizer properties
\* ------------------------------------------------------------------------
LowerSegs(u) == [i \in DOMAIN u.segs |-> ToLowerCase(u.segs[i])]

\* a URL string whose path has no empty segment: at most one trailing slash
SingleSlashed(u) == \A i \in DOMAIN u.segs : u.segs[i] # ""

\* the strings differ at most in letter case, in a trailing slash and in the origin
SameChannel(u, v) ==
    /\ u.segs # <<>>
    /\ SingleSlashed(u)
    /\ SingleSlashed(v)
    /\ LowerSegs(u) = LowerSegs(v)

\* the canonical lowercase absolute form: fixed origin, lowercased path
\* without trailing slash, "/" for the root path
Canonical(u) == Url(YT_ORIGIN, LowerSegs(u), u.segs = <<>>)

\* the tags stored under exactly this key
ExactTags(map, u) ==
    IF \E i \in DOMAIN map : map[i].key = u
    THEN map[CHOOSE i \in DOMAIN map : map[i].key = u].tags
    ELSE <<>>

\* C17: normalizing the output of the normalizer again returns it unchanged,
\* for every input string.
C17_Idempotent == nkey # <<>> => normalizeChannelUrl(nkey[1]) = nkey[1]

\* C18: two URL strings of the same channel that differ only in letter case,
\* in a trailing slash or in the origin normalize to the same key.
C18_SameChannelSameKey ==
    nkey # <<>> =>
        \A v \in NormInputs : SameChannel(nurl, v) => normalizeChannelUrl(v) = nkey[1]

\* C19: for every relative or absolute channel URL, with or without a
\* trailing slash and with any origin, the output is the canonical lowercase
\* absolute form.
C19_CanonicalForm ==
    (nkey # <<>> /\ nurl # NoUrl /\ SingleSlashed(nurl)) => nkey[1] = Canonical(nurl)

\* C20: on a string that fails URL parsing the normalizer returns the string
\* unchanged, and the tag lookups on the string return the count and the
\* match of the tags stored under exactly that string.
C20_FailOpen ==
    nurl.origin = "" =>
        /\ nkey # <<>> => nkey[1] = nurl
        /\ nlook # <<>> =>
             /\ nlook[1].count = Len(ExactTags(channelTagMap, nurl))
             /\ nlook[1].match =
                  (activeFilterTags = {} \/
                   \E i \in DOMAIN ExactTags(channelTagMap, nurl) :
                       ExactTags(channelTagMap, nurl)[i] \in activeFilterTags)

\* a string without origin was normalized and looked up under an active tag
\* filter, and the lookups found the tag stored under the string itself
C20_Witness ==
    /\ nurl.origin = ""
    /\ nkey = <<nurl>>
    /\ nlook # <<>>
    /\ activeFilterTags # {}
    /\ nlook[1].count = 1
    /\ nlook[1].match

\* ------------------------------------------------------------------------
\* Filter Engine properties
\* ------------------------------------------------------------------------
AllTypesOff(types) == \A k \in TypeKeys : ~types[k]

C12_PaginationFollowsToggles ==
    [][(PipelineStep /\ OnFeed) =>
         (dom'.continuation = "none" <=> AllTypesOff(contentTypeFilters'))]_vars

\* all toggles are off, the notice is displayed and pagination is hidden
C12_Witness ==
    /\ OnFeed
    /\ AllTypesOff(contentTypeFilters)
    /\ dom.warning = "flex"
    /\ dom.continuation = "none"

\* with a tag filter every control is hidden, by its own display property or
\* with its card; without one no control has the display property "none"
ButtonsHiddenOK(D, tags) ==
    \A c \in Cards :
        D.cards[c].attached =>
            \A i \in DOMAIN D.cards[c].buttons :
                IF tags # {}
                THEN D.cards[c].buttons[i].display = "none" \/ D.cards[c].display = "none"
                ELSE D.cards[c].buttons[i].display = ""

\* C13: after every pipeline run on the feed (injection pass or filter-change
\* event) every per-card tag control is hidden iff activeFilterTags is
\* non-empty.
C13_ControlsHiddenIffTagFilter ==
    [][(PipelineStep /\ OnFeed) => ButtonsHiddenOK(dom', activeFilterTags')]_vars

\* the elements and attributes of a document without the display properties
\* of its cards and controls, the notice and the pagination display
SansDisplay(D) ==
    [cards |-> [c \in Cards |->
                  [D.cards[c] EXCEPT
                     !.display = "",
                     !.buttons = [i \in DOMAIN @ |-> [@[i] EXCEPT !.display = ""]]]],
     header |-> D.header,
     headerBtns |-> D.headerBtns]

C15_AtMostOneHeaderControl == Len(dom.headerBtns) <= 1

\* a control injected into the fallback container is still the only one after
\* an injection pass on a channel page whose name element has been rendered
\* since
C15_Witness ==
    /\ isChannelPage(path)
    /\ path = lastPath
    /\ dom.header.nameEl
    /\ Len(dom.headerBtns) = 1
    /\ dom.headerBtns[1].parent = "container"
    /\ ~dom.headerBtns[1].fresh
    /\ dom.kept

\* the document without the records of what the running handler did
Elements(D) == [D EXCEPT !.kept = FALSE, !.removed = FALSE]

\* C16: the first path check after the path has changed (mutation batch or
\* popstate) removes the header control that was there, leaves a header
\* control only on a channel page and only one it has created itself, and
\* leaves the same document whether a mutation batch or popstate ran it.
C16_TeardownOnPathChange ==
    [][((MutationBatch \/ Popstate) /\ path # lastPath) =>
         /\ lastPath' = path
         /\ ~isChannelPage(path) => dom'.headerBtns = <<>>
         /\ \A i \in DOMAIN dom'.headerBtns : dom'.headerBtns[i].fresh
         /\ dom.headerBtns # <<>> => dom'.removed
         /\ Elements(dom') = Elements(checkPath(path, lastPath, S0, Settle(dom)))
         /\ Elements(dom') =
              Elements(checkPath(path, lastPath, S0, scanAndInject(path, S0, Settle(dom))))]_vars

\* the path check has just removed the header control on a page that is not
\* a channel page
C16_Witness ==
    /\ ~isChannelPage(path)
    /\ path = lastPath
    /\ dom.removed
    /\ dom.headerBtns = <<>>

\* ------------------------------------------------------------------------
\* The assign request
\* ------------------------------------------------------------------------
\* the one event a click at pos on the control btn has to produce, and the
\* popover the mounted panel has to show for it
OneAssign(btn, pos, events, P, P2) ==
    /\ events = << [channelUrl |-> btn.channelUrl, channelName |-> btn.channelName,
                    x |-> pos.x, y |-> pos.y] >>
    /\ btn.channelUrl # NoUrl
    /\ btn.channelName # ""
    /\ P.mounted => P2.assignOpen /\ P2.assignChannel = events

\* C21: every click on an injected control dispatches exactly one
\* ytx-open-assign event, carrying the channelUrl and the non-empty
\* channelName the control was created with and the click coordinates; the
\* mounted panel opens the popover for that event, and an event without
\* channelUrl leaves the panel as it was.
C21_ClickEmitsOneAssign ==
    [][ /\ \A c \in Cards :
             ClickCardButton(c) =>
               \E i \in DOMAIN dom.cards[c].buttons, pos \in ClickPoints :
                 OneAssign(dom.cards[c].buttons[i], pos, assign', panel, panel')
        /\ ClickHeaderButton =>
             \E i \in DOMAIN dom.headerBtns, pos \in ClickPoints :
               OneAssign(dom.headerBtns[i], pos, assign', panel, panel')
        /\ (\E d \in ForeignDetails : ForeignAssign(d)) => panel' = panel ]_vars

\* a click on the control of an attached card, created for a link without
\* text, opened the popover under the fallback name
C21_Witness ==
    /\ panel.mounted
    /\ panel.assignOpen
    /\ assign # <<>>
    /\ assign[1].channelUrl # NoUrl
    /\ panel.assignChannel = assign
    /\ assign[1].channelName = "Channel"
    /\ \E c \in Cards :
         /\ dom.cards[c].attached
         /\ \E i \in DOMAIN dom.cards[c].buttons :
              dom.cards[c].buttons[i].channelUrl = assign[1].channelUrl

\* ------------------------------------------------------------------------
\* The panel's tag operations
\* ------------------------------------------------------------------------
\* the cards a filter on exactly the tag id shows: attached, displayed and
\* tagged with id under their annotation
ShownFor(D, tags, map, id) ==
    {c \in Cards : /\ D.cards[c].attached
                   /\ D.cards[c].display = ""
                   /\ tags = {id}
                   /\ TagMatch(tags, map, D.cards[c])}

\* C22: a deleteTag(id) step leaves id out of the tag list and out of every
\* assignment list of the filter-change event it dispatches; on the feed a
\* card shown under a filter on exactly id before the step is hidden once the
\* event has been handled.
C22_DeleteCascades ==
    [][ \A id \in TagIds(panel.tags) :
          ClickDelete(id) =>
            /\ id \notin TagIds(panel'.tags)
            /\ detail'.present
            /\ \A k \in DOMAIN detail'.channelTags :
                 id \notin Range(detail'.channelTags[k].tags)
            /\ OnFeed =>
                 \A c \in ShownFor(dom, activeFilterTags, channelTagMap, id) :
                   dom'.cards[c].display = "none" ]_vars

\* the active tag was deleted while a card of a channel that carried it was
\* shown: the tag is gone from the list and the card is hidden
C22_Witness ==
    /\ OnFeed
    /\ detail.present
    /\ \E id \in detail.activeTags :
         /\ id \notin TagIds(panel.tags)
         /\ activeFilterTags = {id}
    /\ channelTagMap # <<>>
    /\ \E c \in Cards :
         /\ dom.cards[c].attached
         /\ dom.cards[c].urlMark # <<>>
         /\ MapHas(channelTagMap, normalizeChannelUrl(dom.cards[c].urlMark[1]))
         /\ dom.cards[c].display = "none"

DistinctIds(tags) ==
    \A i, j \in DOMAIN tags : i # j => tags[i].id # tags[j].id

\* the id createTag has to give a tag of the given slug: the slug when it is
\* unused, else the slug with the least suffix from 2 on that is unused
IsFreshId(id, slug, ids) ==
    IF slug \notin ids THEN id = slug
    ELSE \E i \in 2..(Cardinality(ids) + 2) :
           /\ id = Suffixed(slug, i)
           /\ id \notin ids
           /\ \A j \in 2..(i - 1) : Suffixed(slug, j) \in ids

\* C23: the ids of the tag list are pairwise distinct after every step; a
\* createTag step with a non-blank name appends one tag whose id is the slug
\* of the name, or the slug with the first unused suffix -2, -3, ... when the
\* slug is taken; a createTag step with a blank name changes nothing.
C23_UniqueIds ==
    [][ /\ DistinctIds(panel'.tags)
        /\ ClickAdd =>
             IF Trim(panel.newTag) = <<>>
             THEN panel' = panel /\ storage' = storage
             ELSE /\ Len(panel'.tags) = Len(panel.tags) + 1
                  /\ SubSeq(panel'.tags, 1, Len(panel.tags)) = panel.tags
                  /\ IsFreshId(panel'.tags[Len(panel'.tags)].id,
                               slugify(panel.newTag), TagIds(panel.tags)) ]_vars

\* "Racing" was added while racing and racing-2 were taken: it got racing-3
C23_Witness ==
    /\ DistinctIds(panel.tags)
    /\ {<<"racing">>, <<"racing", "-", "2">>, <<"racing", "-", "3">>}
         \subseteq TagIds(panel.tags)
    /\ panel.tags[Len(panel.tags)] = Tag(<<"racing", "-", "3">>, <<"Racing">>, "#ff4d5a")

\* C24: in every reachable state of the panel every key of the
\* channel-to-tags map holds at least one tag.
C24_NoEmptyEntries ==
    \A k \in DOMAIN panel.channelTags : panel.channelTags[k].tags # <<>>

\* C25: while the page has no storage backend, loadData resolves to the
\* defaults, the state the panel takes from it is the default state, and no
\* step of the panel writes storage or raises an error.
C25_NoBackendNoOp ==
    [][ storage = <<>> =>
          /\ storage' = <<>>
          /\ panel'.errors = 0
          /\ Mount =>
               panel'.pending =
                 << Loaded(DEFAULT_TAGS, <<>>, DEFAULT_CONTENT_TYPES, TRUE, <<>>) >>
          /\ LoadResolved =>
               /\ panel'.tags = DEFAULT_TAGS
               /\ panel'.channelTags = <<>>
               /\ panel'.contentTypes = DEFAULT_CONTENT_TYPES
               /\ panel'.panelOpen
               /\ panel'.activeTag = <<>> ]_vars

\* without a backend the panel has loaded, and then a tag was added, a
\* filter selected and the panel closed: each save effect has run
C25_Witness ==
    /\ storage = <<>>
    /\ panel.mounted
    /\ panel.pending = <<>>
    /\ Len(panel.tags) > Len(DEFAULT_TAGS)
    /\ panel.activeTag # <<>>
    /\ ~panel.panelOpen
    /\ panel.errors = 0

\* ------------------------------------------------------------------------
\* Convergence of the observers
\* ------------------------------------------------------------------------
\* one more pass would leave every element of the document as it is
PassIsNoOp ==
    Elements(handleBatch(path, lastPath, S0, Settle(dom))) = Elements(Settle(dom))

\* C26: once the host page has stopped mutating, the passes the pipeline's
\* own child-list changes queue come to an end: from some pass on no records
\* are queued, and one more pass would change nothing.
C26_PassesConverge == <>[](~records /\ PassIsNoOp)

\* the passes have stopped on a feed card whose control an earlier pass
\* inserted: the pass that insertion triggered found nothing to do
C26_Witness ==
    /\ ~records
    /\ OnFeed
    /\ \E c \in Cards :
         /\ dom.cards[c].attached
         /\ ~dom.cards[c].shadow
         /\ dom.cards[c].buttons # <<>>
         /\ \A i \in DOMAIN dom.cards[c].buttons : ~dom.cards[c].buttons[i].fresh

\* ------------------------------------------------------------------------
\* The filter-change handler
\* ------------------------------------------------------------------------
\* the contentTypes object of an event that sets all four keys
EventTypes(d) == [k \in TypeKeys |-> k \in d.on]

IsComplete(d) ==
    d.present /\ d.hasTags /\ d.hasMap /\ d.hasTypes /\ d.on \cup d.off = TypeKeys

\* C27: when the listener has handled an event that carries all three
\* fields, the store holds the event's three values, and the labels, the
\* card visibility and the control visibility it leaves are the ones of
\* those three values: nothing was computed from a field of the old store.
C27_WriteThenRecompute ==
    [][ IsComplete(detail') =>
          /\ activeFilterTags' = detail'.activeTags
          /\ channelTagMap' = detail'.channelTags
          /\ contentTypeFilters' = EventTypes(detail')
          /\ LabelsCurrent(dom', detail'.channelTags)
          /\ OnFeed =>
               /\ VisibilityOK(dom', detail'.activeTags, detail'.channelTags,
                               EventTypes(detail'))
               /\ ButtonsHiddenOK(dom', detail'.activeTags) ]_vars

\* an event that changed the active tag, the map and so the label of a
\* card's control has been handled: the card is shown under the new values
C27_Witness ==
    /\ IsComplete(detail)
    /\ detail.activeTags # {}
    /\ \E c \in Cards :
         /\ dom.cards[c].attached
         /\ dom.cards[c].display = ""
         /\ dom.cards[c].buttons # <<>>
         /\ dom.cards[c].buttons[1].text # "Tag"
         /\ dom.cards[c].buttons[1].display = "none"

Qualifies(l) == isChannelUrl(Href(l.attr))

\* the matches of the structural patterns in priority order: the avatar
\* link, then the links of each selector in document order
PatternMatches(links) ==
    LET avatars == SelectSeq(links, LAMBDA l : l.avatar)
    IN  (IF avatars # <<>> /\ Qualifies(avatars[1]) THEN <<avatars[1]>> ELSE <<>>)
        \o SelectorLinks(links, 1)

FallbackMatches(links) == SelectSeq(links, LAMBDA l : ~l.inMenu /\ Qualifies(l))

\* the first qualifying match: of the patterns, else of the fallback scan
FirstMatch(links) ==
    IF PatternMatches(links) # <<>> THEN <<PatternMatches(links)[1]>>
    ELSE IF FallbackMatches(links) # <<>> THEN <<FallbackMatches(links)[1]>>
    ELSE <<>>

\* C29: the resolver returns the first qualifying match of the structural
\* patterns in their priority order, else the first qualifying link outside
\* the options menu, else none; a returned link qualifies as a channel URL.
C29_FirstQualifyingMatch ==
    rout # <<>> =>
        /\ rout[1] = FirstMatch(rlinks)
        /\ rout[1] # <<>> => Qualifies(rout[1][1])

\* ------------------------------------------------------------------------
\* Resolution misses
\* ------------------------------------------------------------------------
\* what a pass on the feed leaves of one card: a card with a channel link is
\* annotated and carries a control, on its thumbnail or else on the card; a
\* card without one is left bare; both are filtered
CardPassed(S, before, after) ==
    LET first == FirstMatch(Content(before.content).links)
    IN  /\ IF first = <<>>
           THEN /\ after.buttons = <<>>
                /\ after.urlMark = <<>>
                /\ ~after.cardMark
           ELSE /\ after.urlMark = << Href(first[1].attr) >>
                /\ after.cardMark
                /\ Len(after.buttons) = 1
                /\ after.buttons[1].channelUrl = Href(first[1].attr)
                /\ after.buttons[1].parent =
                       IF Content(before.content).thumb THEN "thumbnail" ELSE "card"
        /\ (after.display = "") =
               (matchesTagFilter(S, after.urlMark) /\ matchesContentTypeFilter(S, after))

\* what a pass on a channel page leaves of the header: a control where the
\* header has an anchor, none where it has none
HeaderPassed(before, after) ==
    /\ (before.header.nameEl \/ before.header.container) => after.headerBtns # <<>>
    /\ (~before.header.nameEl /\ ~before.header.container /\ before.headerBtns = <<>>)
           => after.headerBtns = <<>>
    /\ after.cards = Settle(before).cards

\* C30: a resolution miss never aborts a pass: every pass on the feed
\* injects, annotates and filters every card that has a channel link,
\* whatever the other cards lack, skips a card without a channel link, puts
\* the control on the card when it has no thumbnail, and every pass on a
\* channel page completes with or without a header anchor.
C30_MissNeverAborts ==
    [][MutationBatch =>
         /\ isSubscriptionsFeed(path) =>
                \A c \in DOMAIN dom.cards :
                    dom.cards[c].attached => CardPassed(S0, dom.cards[c], dom'.cards[c])
         /\ isChannelPage(path) => HeaderPassed(dom, dom')]_vars

\* a pass has just put a control on the second card, which has no thumbnail,
\* while the first card has no channel link
C30_Witness ==
    /\ isSubscriptionsFeed(path)
    /\ dom.cards[1].attached
    /\ dom.cards[1].content = "N"
    /\ dom.cards[1].buttons = <<>>
    /\ Len(dom.cards) > 1
    /\ dom.cards[Len(dom.cards)].attached
    /\ dom.cards[Len(dom.cards)].content = "A2"
    /\ dom.cards[Len(dom.cards)].buttons # <<>>
    /\ dom.cards[Len(dom.cards)].buttons[1].fresh
    /\ dom.cards[Len(dom.cards)].buttons[1].parent = "card"

\* ------------------------------------------------------------------------
\* Options menu properties
\* ------------------------------------------------------------------------
\* C31: each options popup list holds at most one injected menu entry in
\* every reachable state, however many injection passes run while the popup
\* is present.
C31_OneEntryPerPopup ==
    \A i \in DOMAIN dom.popups : Len(dom.popups[i]) <= 1

\* a pass has just found the entry of an earlier pass in a popup and left it
C31_Witness ==
    \E i \in DOMAIN dom.popups :
        /\ Len(dom.popups[i]) = 1
        /\ dom.popups[i][1].seen
        /\ ~dom.popups[i][1].fresh

\* the reference names the same element before and after: it is unchanged,
\* or the host page removed the element it names
SameElement(L1, L2) ==
    \/ L1 = L2
    \/ /\ L1 # <<>> /\ L2 # <<>>
       /\ L1[1].live /\ ~L2[1].live
       /\ L1[1].slot = L2[1].slot

\* the assign-requests for the channel link of the referenced element: one
\* for its first qualifying match, none without a reference or a match
RequestsFor(L, D, events) ==
    IF L = <<>> THEN events = <<>>
    ELSE LET first == FirstMatch(refLinks(L, D))
         IN  IF first = <<>> THEN events = <<>>
             ELSE /\ Len(events) = 1
                  /\ events[1].channelUrl = Href(first[1].attr)
                  /\ events[1].channelName # ""

\* C32: a click inside the options menu of a card makes that card the
\* tracked card, and nothing else changes the tracked card; activating the
\* injected menu entry emits one assign-request for the channel link resolved
\* at that time from the tracked card, and nothing when no card is tracked or
\* the tracked card has no qualifying channel link.
C32_EntryUsesLastMenuCard ==
    [][/\ \A c \in Cards : MenuClick(c) => lastMenuCard' = CardRef(c)
       /\ \A i \in 1..MaxPopups :
             ClickMenuItem(i) => RequestsFor(lastMenuCard, dom, assign')
       /\ ~SameElement(lastMenuCard, lastMenuCard') => \E c \in Cards : MenuClick(c)]_vars

\* ------------------------------------------------------------------------
\* Shelf properties
\* ------------------------------------------------------------------------
\* the shelf is composed purely of short-form content
PurelyShorts(shelf) ==
    /\ shelf.items # <<>>
    /\ \A k \in DOMAIN shelf.items : shelf.items[k] = "short"

\* a run of applyFilter on the feed
FilterRun ==
    /\ isSubscriptionsFeed(path)
    /\ MutationBatch \/ \E d \in ShelfDetails : FilterChange(d)

\* C33: after every applyFilter run on the subscriptions feed, a shelf is
\* hidden with the shorts toggle off only if it is composed purely of
\* short-form content, and with the shorts toggle on every shelf of short-form
\* content is shown.
C33_OnlyShortsShelvesHidden ==
    [][FilterRun =>
         \A i \in DOMAIN dom'.shelves :
            /\ (dom'.shelves[i].display = "none" /\ ~contentTypeFilters'["shorts"])
                   => PurelyShorts(dom'.shelves[i])
            /\ (contentTypeFilters'["shorts"] /\ PurelyShorts(dom'.shelves[i]))
                   => dom'.shelves[i].display = ""]_vars

\* ------------------------------------------------------------------------
\* Assigning a tag, then filtering by it: two cards, panel and content script
\* ------------------------------------------------------------------------
FlowCards == 1..(NumCards + 1)

\* "A" and "A2" link the same channel as /@a and /@A/, "B" another channel
FlowContents == {"A", "A2", "B"}

\* storage before startup: one tag, nothing assigned, the panel open
FlowArea ==
    Area(<< << Tag(<<"racing">>, <<"Racing">>, "#7a5cff") >> >>,
         <<>>, <<>>, << TRUE >>, <<>>)

InitFlow ==
    /\ path = FEED
    /\ lastPath = FEED
    /\ dom = [InitDom EXCEPT !.cards = [c \in FlowCards |-> NoCard]]
    /\ activeFilterTags = {}
    /\ channelTagMap = <<>>
    /\ contentTypeFilters = DEFAULT_CONTENT_TYPES
    /\ detail = NoDetail
    /\ assign = <<>>
    /\ ctree = <<>>
    /\ ctype = "unset"
    /\ nurl = NoUrl
    /\ nkey = <<>>
    /\ nlook = <<>>
    /\ panel = App0
    /\ storage = << FlowArea >>
    /\ rlinks = <<>>
    /\ rout = <<>>
    /\ records = FALSE
    /\ lastMenuCard = <<>>
    /\ requests = <<>>

NextFlow ==
    \/ Mount
    \/ LoadResolved
    \/ \E id \in TagIds(panel.tags) : ClickFilter(id)
    \/ \E id \in TagIds(panel.tags) : ClickAssign(id)
    \/ ClickContentType("shorts")
    \/ ClosePopover
    \/ \E c \in FlowCards : ClickCardButton(c)
    \/ MutationBatch
    \/ \E c \in FlowCards, n \in FlowContents : HostAttachCard(c, n, FALSE)

SpecFlow == InitFlow /\ [][NextFlow]_vars

\* the channel link of card c normalizes to a key of map m that carries tag id
AssignedTo(m, D, c, id) ==
    LET first == FirstMatch(Content(D.cards[c].content).links) IN
    /\ first # <<>>
    /\ \E i \in DOMAIN m :
          /\ normalizeChannelUrl(m[i].key) = normalizeChannelUrl(Href(first[1].attr))
          /\ \E k \in DOMAIN m[i].tags : m[i].tags[k] = id

C35_ActiveTagIsListed ==
    /\ panel.activeTag # <<>> => panel.activeTag[1] \in TagIds(panel.tags)
    /\ detail.present => detail.activeTags \subseteq TagIds(panel.tags)

\* ------------------------------------------------------------------------
\* Startup: the load effect and the save effects of App against the storage
\* backend.  chrome.storage calls are asynchronous: a call is issued by an
\* effect and served later, in the order of issue.  React.StrictMode
\* (renderApp) runs the effects of a mounting component, their cleanups, and
\* the effects again in a development build, and once in a production build.
\* ------------------------------------------------------------------------
\* area.get issued by loadData; mounted is the `let mounted` of the effect
GetRequest(mounted) == [op |-> "get", mounted |-> mounted, P |-> App0, changed |-> {}]

\* area.set calls issued by the save effects for the state P they closed over
SetRequest(P, changed) == [op |-> "set", mounted |-> FALSE, P |-> P, changed |-> changed]

\* one run of the effects of App: loadData(), then the three save effects
runEffects(reqs, P) == reqs \o << GetRequest(TRUE), SetRequest(P, StateKeys) >>

\* the cleanup of the load effect: mounted = false
runCleanups(reqs) ==
    [i \in DOMAIN reqs |->
        IF reqs[i].op = "get" THEN [reqs[i] EXCEPT !.mounted = FALSE] ELSE reqs[i]]

\* createRoot(mount).render(<React.StrictMode><App/></React.StrictMode>)
renderApp(strict) ==
    /\ ~panel.mounted
    /\ \E P \in {[panel EXCEPT !.mounted = TRUE]} :
       \E d \in {filterChangeDetail(P)} :
       \E out1 \in {filterListener(path, S0, Settle(dom), d)} :
       \E out \in {IF strict THEN filterListener(path, out1.store, out1.dom, d) ELSE out1} :
          /\ panel' = P
          /\ requests' = IF strict
                         THEN runEffects(runCleanups(runEffects(requests, P)), P)
                         ELSE runEffects(requests, P)
          /\ activeFilterTags' = out.store.tags
          /\ channelTagMap' = out.store.map
          /\ contentTypeFilters' = out.store.types
          /\ dom' = out.dom
          /\ detail' = d
    /\ assign' = <<>>
    /\ UNCHANGED <<path, lastPath, ctree, ctype, nurl, nkey, nlook, storage,
                   rlinks, rout, records, lastMenuCard>>

\* the state after the five setters of the load effect
loadSetters(P, data) ==
    [P EXCEPT !.tags = data.tags,
              !.channelTags = data.channelTags,
              !.contentTypes = data.contentTypes,
              !.panelOpen = data.panelOpen,
              !.activeTag = IF Len(data.activeFilters) > 0
                            THEN <<data.activeFilters[1]>>
                            ELSE <<>>]

\* the keys whose effects run after the setters: the three values read from
\* storage are new objects, the two primitives count when they differ
loadChanged(P, P1) ==
    {"tags", "channelTags", "contentTypes"}
       \cup (IF P1.panelOpen # P.panelOpen THEN {"panelOpen"} ELSE {})
       \cup (IF P1.activeTag # P.activeTag THEN {"activeTag"} ELSE {})

\* the backend serves area.get: loadData's promise resolves and the
\* callback of the load effect runs, unless its effect was cleaned up
StorageGet ==
    /\ requests # <<>>
    /\ Head(requests).op = "get"
    /\ IF Head(requests).mounted
       THEN \E P1 \in {loadSetters(panel, loadData(storage))} :
            \E d \in {filterChangeDetail(P1)} :
            \E out \in {filterListener(path, S0, Settle(dom), d)} :
               /\ panel' = P1
               /\ requests' = Append(Tail(requests),
                                     SetRequest(P1, loadChanged(panel, P1)))
               /\ activeFilterTags' = out.store.tags
               /\ channelTagMap' = out.store.map
               /\ contentTypeFilters' = out.store.types
               /\ dom' = out.dom
               /\ detail' = d
       ELSE /\ requests' = Tail(requests)
            /\ detail' = NoDetail
            /\ UNCHANGED <<panel, activeFilterTags, channelTagMap,
                           contentTypeFilters, dom>>
    /\ assign' = <<>>
    /\ UNCHANGED <<path, lastPath, ctree, ctype, nurl, nkey, nlook, storage,
                   rlinks, rout, records, lastMenuCard>>

\* the backend serves the area.set calls of one run of the save effects
StorageSet ==
    /\ requests # <<>>
    /\ Head(requests).op = "set"
    /\ storage' = Effects(Head(requests).P, storage, Head(requests).changed).storage
    /\ requests' = Tail(requests)
    /\ detail' = NoDetail
    /\ assign' = <<>>
    /\ UNCHANGED <<path, lastPath, dom, activeFilterTags, channelTagMap,
                   contentTypeFilters, ctree, ctype, nurl, nkey, nlook, panel,
                   rlinks, rout, records, lastMenuCard>>

InitStartup ==
    /\ path = FEED
    /\ lastPath = FEED
    /\ dom = InitDom
    /\ activeFilterTags = {}
    /\ channelTagMap = <<>>
    /\ contentTypeFilters = DEFAULT_CONTENT_TYPES
    /\ detail = NoDetail
    /\ assign = <<>>
    /\ ctree = <<>>
    /\ ctype = "unset"
    /\ nurl = NoUrl
    /\ nkey = <<>>
    /\ nlook = <<>>
    /\ panel = App0
    /\ storage = << StoredArea >>
    /\ rlinks = <<>>
    /\ rout = <<>>
    /\ records = FALSE
    /\ lastMenuCard = <<>>
    /\ requests = <<>>

NextStartup ==
    \/ \E strict \in BOOLEAN : renderApp(strict)
    \/ StorageGet
    \/ StorageSet
    \/ MutationBatch
    \/ \E c \in Cards, n \in {"A", "B", "N"}, sh \in BOOLEAN : HostAttachCard(c, n, sh)
    \/ \E c \in Cards : HostDetachCard(c)

SpecStartup == InitStartup /\ [][NextStartup]_vars

\* loading has finished: the panel is mounted and every storage call served
LoadingFinished == panel.mounted /\ requests = <<>>

\* C36: once loading has finished, storage holds the values it held before
\* startup, and the panel holds those values.
C36_StartupKeepsStorage ==
    LoadingFinished =>
       /\ storage = << StoredArea >>
       /\ panel.tags = StoredArea.tags[1]
       /\ panel.channelTags = StoredArea.channelTags[1]
       /\ panel.contentTypes = StoredArea.contentTypes[1]
       /\ panel.activeTag = << StoredArea.activeFilters[1][1] >>

\* ------------------------------------------------------------------------
\* Off the feed: passes and filter-change events on a channel page and on a
\* watch page, with cards, controls and popups left in the document
\* ------------------------------------------------------------------------
\* filter-change events: a tag filter on or off, every content type on or off
OffFeedDetails ==
    { Detail(TRUE, TRUE, a, TRUE, << Entry(KEY_A_RAW, <<"t1">>) >>, TRUE, on, TypeKeys \ on) :
        a \in {{}, {"t1"}}, on \in {TypeKeys, {}} }

NextOffFeed ==
    \/ MutationBatch
    \/ Popstate
    \/ \E d \in OffFeedDetails : FilterChange(d)
    \/ HostOpenPopup
    \/ \E c \in Cards, n \in {"A", "B"}, sh \in BOOLEAN : HostAttachCard(c, n, sh)
    \/ \E c \in Cards : HostDetachCard(c)
    \/ \E c \in Cards : HostRemoveButton(c)
    \/ \E p \in {FEED, CHANNEL_A, WATCH}, h \in AssignLayouts \cup {NoHeader} : Navigate(p, h)

SpecOffFeed == Init /\ [][NextOffFeed]_vars

\* an injection pass, a filter pass or a filter-change event
PassOrEvent ==
    MutationBatch \/ Popstate \/ \E d \in OffFeedDetails : FilterChange(d)

\* C37: while the location path is not the subscriptions feed, a pass and a
\* filter-change event change no card's display property, attach no control
\* to a card, add no entry to a popup list, and leave the empty-state notice
\* as it was.
C37_OffFeedFrame ==
    [][(~isSubscriptionsFeed(path) /\ PassOrEvent) =>
         /\ \A c \in DOMAIN dom.cards :
               /\ dom'.cards[c].display = dom.cards[c].display
               /\ Len(dom'.cards[c].buttons) = Len(dom.cards[c].buttons)
               /\ \A i \in DOMAIN dom'.cards[c].buttons : ~dom'.cards[c].buttons[i].fresh
         /\ Len(dom'.popups) = Len(dom.popups)
         /\ \A i \in DOMAIN dom.popups : Len(dom'.popups[i]) = Len(dom.popups[i])
         /\ dom'.warning = dom.warning]_vars

\* off the feed, after a filter-change event that cleared the tag filter:
\* a card the filter had hidden on the feed is still hidden, a card without
\* a control has none, a popup list without an entry has none, and with
\* every content type disabled there is no notice
C37_Witness ==
    /\ ~isSubscriptionsFeed(path)
    /\ detail.present
    /\ activeFilterTags = {}
    /\ \A k \in TypeKeys : ~contentTypeFilters[k]
    /\ dom.warning = "absent"
    /\ \E i \in DOMAIN dom.popups : dom.popups[i] = <<>>
    /\ \E c \in DOMAIN dom.cards :
          /\ dom.cards[c].attached
          /\ dom.cards[c].buttons = <<>>
          /\ dom.cards[c].display = "none"

\* ------------------------------------------------------------------------
\* A control the host page removed from a processed card
\* ------------------------------------------------------------------------
\* card c is marked as processed, has a channel link and has lost its control
ControlRemoved(D, c) ==
    /\ D.cards[c].attached
    /\ D.cards[c].cardMark
    /\ D.cards[c].buttons = <<>>
    /\ findChannelLink(Content(D.cards[c].content).links) # <<>>

\* C38: an injection pass on the feed over a processed card whose control
\* the host page removed attaches exactly one control to the card, labelled
\* for the card's current tag count, and hidden when a tag filter is active.
C38_RemovedControlRestored ==
    [][\A c \in DOMAIN dom.cards :
          (MutationBatch /\ isSubscriptionsFeed(path) /\ ControlRemoved(dom, c)) =>
             /\ Len(dom'.cards[c].buttons) = 1
             /\ dom'.cards[c].buttons[1].text =
                   getTagButtonLabel(S0, dom'.cards[c].buttons[1].channelUrl)
             /\ activeFilterTags # {} => dom'.cards[c].buttons[1].display = "none"]_vars

\* ------------------------------------------------------------------------
\* Controls on the cards of queryAllCards under a filter-change event
\* ------------------------------------------------------------------------
\* C40: after a filter-change event on the feed, every control on a card of
\* queryAllCards, document-level or inside the app element's shadow root,
\* carries the label for its channel's current tag count and is hidden
\* exactly when a tag filter is active.
C40_ShadowControlsCovered ==
    [][\A d \in PanelDetails :
          (FilterChange(d) /\ isSubscriptionsFeed(path)) =>
             \A c \in queryAllCards(dom') :
                \A i \in DOMAIN dom'.cards[c].buttons :
                   /\ dom'.cards[c].buttons[i].text =
                         getTagButtonLabel(
                            Store(activeFilterTags', channelTagMap', contentTypeFilters'),
                            dom'.cards[c].buttons[i].channelUrl)
                   /\ dom'.cards[c].buttons[i].display = "none" <=> activeFilterTags' # {}]_vars

\* ------------------------------------------------------------------------
\* Navigation between channel pages: handle, channel-id and custom-URL
\* paths, with sub-pages
\* ------------------------------------------------------------------------
CHANNEL_A_VIDEOS == Url(YT_ORIGIN, <<"@a", "videos">>, FALSE)
CHANNEL_ID_ABOUT == Url(YT_ORIGIN, <<"channel", "uc1", "about">>, FALSE)
CHANNEL_CUSTOM == Url(YT_ORIGIN, <<"c", "name">>, TRUE)

NavPaths == {FEED, CHANNEL_A, CHANNEL_A_VIDEOS, CHANNEL_B, CHANNEL_ID_ABOUT, CHANNEL_CUSTOM}

NextNav ==
    \/ MutationBatch
    \/ Popstate
    \/ ClickHeaderButton
    \/ \E p \in NavPaths, h \in AssignLayouts \cup {NoHeader} : Navigate(p, h)
    \/ \E h \in AssignLayouts : HostRenderHeader(h)
    \/ HostRemoveHeaderButton

SpecNav == Init /\ [][NextNav]_vars

\* origin plus the handle, or plus /channel/<id>, or plus /c/<name>
BaseChannelUrl(p) ==
    Url(p.origin, SubSeq(p.segs, 1, IF IsHandleSeg(p.segs[1]) THEN 1 ELSE 2), FALSE)

\* C39: once the observer has handled the latest path change, a
\* channel-header control is on a channel page and every assign-request it
\* emits on click carries the base channel URL of the current location.
C39_HeaderEmitsCurrentChannel ==
    path = lastPath =>
       \A i \in DOMAIN dom.headerBtns :
          /\ isChannelPage(path)
          /\ \A pos \in ClickPoints :
                \A k \in DOMAIN clickEvents(dom.headerBtns[i], pos) :
                   clickEvents(dom.headerBtns[i], pos)[k].channelUrl = BaseChannelUrl(path)

\* on channel B, after the step that handled the path change removed the
\* control of the page before: a click on the control has emitted channel B
C39_Witness ==
    /\ path = CHANNEL_B
    /\ lastPath = CHANNEL_B
    /\ dom.removed
    /\ dom.headerBtns # <<>>
    /\ assign # <<>>
    /\ assign[1].channelUrl = CHANNEL_B

====
